---- MODULE Spec2Model ----
(***************************************************************************)
(* Model of the HCI event filter for LE Extended Advertising Reports       *)
(* (app/bluetooth/common/hci_ext_adv_filter_rssi_uuid): the configuration  *)
(* command handler, the RSSI stage and the UUID stage with its fragment    *)
(* tracker.  Bytes are naturals 0..255; uint8_t arithmetic is taken        *)
(* modulo 256 where the code can overflow.                                 *)
(***************************************************************************)
EXTENDS Integers, Sequences, FiniteSets, TLC

VARIABLES
  hci_event_filter,                \* static struct sli_btctrl_hci_event_filter
  work_filter,                     \* static struct sli_work_filter
  user_filter,                     \* caller-owned storage last handed to the public API
  advertisment_report_incomplete,  \* static bool: the fragment tracker
  event,                           \* the HCI event being filtered, or NoEvent
  rssi_status,                     \* what filter_by_rssi returned for `event`
  uuid_status,                     \* what filter_by_uuid returned for `event`
  uuid_scan,                       \* what the last filter_by_uuid call did (reads, transition)
  response,                        \* outcome of the last configuration operation
  configure_call,                  \* a configuration command under way, or NoCall
  first_pass,                      \* what the callbacks returned for `event` the first time
  invocation,                      \* the tracker `event` met and the callbacks run on it so far
  queue,                           \* an efr32CircularQueue_t
  queue_index,                     \* the last call on `queue` and what it returned
  outstanding,                     \* the indexes handed out and not yet freed, oldest first
  buttonPressDurationMs,           \* static uint32_t of button-joining.c
  timeMs,                          \* static uint32_t of buttonPress
  buttonEvent,                     \* which of the two button events are active
  tick,                            \* halCommonGetInt32uMillisecondTick()
  pressed,                         \* for each button that is down, the tick it went down at
  held,                            \* how long button 0 was down at its last release
  button0_run,                     \* the last run of the button 0 event handler
  length_check,                    \* a build's list capacities and a command length put to its test
  identifyTable,                   \* static bool identifyTable[] of identify-feedback.c
  provideFeedbackEvent,            \* is emberAfPluginIdentifyFeedbackProvideFeedbackEvent scheduled
  leds,                            \* the board LEDs, toggled together
  identify_call                    \* the last identify callback and the state it met

\* the state of the circular queue manager
queueVars == <<queue, queue_index, outstanding>>

\* the state of the button-joining plugin and of the two buttons
buttonVars ==
  <<buttonPressDurationMs, timeMs, buttonEvent, tick, pressed, held, button0_run>>

\* the state of the identify-feedback plugin
identifyVars == <<identifyTable, provideFeedbackEvent, leds, identify_call>>

\* the state of the programs other than the HCI event filter, and the build
\* whose length test is looked at on its own
otherPrograms == <<queueVars, buttonVars, identifyVars, length_check>>

\* what the filter's handlers, taken as one step each, never touch
elsewhere == <<configure_call, first_pass, invocation, otherPrograms>>

\* the state of the HCI event filter
filterVars ==
  <<hci_event_filter, work_filter, user_filter, advertisment_report_incomplete,
    event, rssi_status, uuid_status, uuid_scan, response, configure_call, first_pass,
    invocation>>

vars == <<hci_event_filter, work_filter, user_filter, advertisment_report_incomplete,
          event, rssi_status, uuid_status, uuid_scan, response, elsewhere>>

-----------------------------------------------------------------------------
(* Program constants *)

BT_OK == 0
BT_ERR_INVALID == 18
HCI_EVENT_LE_META_EVENT == 62
HCI_EVENT_LE_EXTENDED_ADVERTISING_REPORT == 13
SL_BT_HCI_CONFIGURE_FILTERING_OPCODE == 65297

SL_BT_HCI_AD_TYPE_INCOMPLETE_SERVICE_CLASS_UUID_16_BIT == 2
SL_BT_HCI_AD_TYPE_COMPLETE_SERVICE_CLASS_UUID_16_BIT == 3
SL_BT_HCI_AD_TYPE_INCOMPLETE_SERVICE_CLASS_UUID_32_BIT == 4
SL_BT_HCI_AD_TYPE_COMPLETE_SERVICE_CLASS_UUID_32_BIT == 5
SL_BT_HCI_AD_TYPE_SERVICE_DATA_UUID_16_BIT == 22
SL_BT_HCI_AD_TYPE_SERVICE_DATA_UUID_32_BIT == 32

SL_BT_HCI_FILTER_CONFIG_RSSI_ENABLE == 0
SL_BT_HCI_FILTER_CONFIG_SERVICE_DATA_UUID_16_BIT_ENABLE == 1
SL_BT_HCI_FILTER_CONFIG_INCOMPLETE_UUID_16_BIT_ENABLE == 2
SL_BT_HCI_FILTER_CONFIG_COMPLETE_UUID_16_BIT_ENABLE == 3
SL_BT_HCI_FILTER_CONFIG_SERVICE_DATA_UUID_32_BIT_ENABLE == 4
SL_BT_HCI_FILTER_CONFIG_INCOMPLETE_UUID_32_BIT_ENABLE == 5
SL_BT_HCI_FILTER_CONFIG_COMPLETE_UUID_32_BIT_ENABLE == 6
SL_BT_HCI_FILTER_CONFIG_MASK == 127
SL_BT_HCI_FILTER_RSSI_MAX == -30
SL_BT_HCI_FILTER_RSSI_MIN == -120
SL_BT_HCI_FILTER_CONFIG == 1
SL_BT_HCI_FILTER_RSSI_THRESHOLD == -80

\* Deployment capacities.  The configuration header gives each array length
\* as a number of UUIDs times the UUID width (<#*2>, <#*4>).
MaxUuid16 == 2
MaxUuid32 == 1
SL_BT_HCI_FILTER_16BIT_UUID_ARRAY_LEN == 2 * MaxUuid16
SL_BT_HCI_FILTER_32BIT_UUID_ARRAY_LEN == 4 * MaxUuid32
WORK_MEMORY == SL_BT_HCI_FILTER_16BIT_UUID_ARRAY_LEN
               + SL_BT_HCI_FILTER_32BIT_UUID_ARRAY_LEN + 2

\* hci_le_extended_advertising_report_t, packed: field offsets and sizes.
OFFSET_EVENT_CODE == 0
OFFSET_EVENT_TYPE == 4
OFFSET_ADDRESS_TYPE == 6
OFFSET_ADDRESS == 7
OFFSET_ADVERTISING_SID == 15
OFFSET_RSSI == 17
OFFSET_PERIODIC_ADVERTISING_INTERVAL == 18
OFFSET_DATA_LENGTH == 27
OFFSET_DATA == 28
SIZEOF_DATA == 229
HCI_ADV_REPORT_MAX_LEN == (OFFSET_DATA + SIZEOF_DATA) + 2
RSSI_OFFSET == OFFSET_PERIODIC_ADVERTISING_INTERVAL + 2

ACCEPT == "ACCEPT"      \* SL_BTCTRL_HCI_EVENT_FILTER_STATUS_EVENT_ACCEPT
DISCARD == "DISCARD"    \* SL_BTCTRL_HCI_EVENT_FILTER_STATUS_EVENT_DISCARD
HANG == "HANG"          \* the callback never returns
UB == "UB"              \* the callback read outside its buffer

SL_STATUS_OK == "SL_STATUS_OK"
SL_STATUS_FAIL == "SL_STATUS_FAIL"
SL_STATUS_NULL_POINTER == "SL_STATUS_NULL_POINTER"
SL_STATUS_INVALID_PARAMETER == "SL_STATUS_INVALID_PARAMETER"

-----------------------------------------------------------------------------
(* Integer helpers *)

Min(a, b) == IF a < b THEN a ELSE b
Max(a, b) == IF a > b THEN a ELSE b

RECURSIVE Pow2(_)
Pow2(n) == IF n = 0 THEN 1 ELSE 2 * Pow2(n - 1)

\* (x & (1 << k)) != 0
BitSet(x, k) == (x \div Pow2(k)) % 2 = 1

\* faulty variant: bit 7 is taken as a defined rule bit
OutsideMask_from_bit8(x) == x \div (2 * (SL_BT_HCI_FILTER_CONFIG_MASK + 1)) # 0

\* (x & ~SL_BT_HCI_FILTER_CONFIG_MASK) != 0, the mask being bits 0..6
OutsideMask(x) == x \div (SL_BT_HCI_FILTER_CONFIG_MASK + 1) # 0

\* faulty variant: the RSSI bit counts as a UUID rule
UuidRuleBits_with_rssi(x) == x % (SL_BT_HCI_FILTER_CONFIG_MASK + 1) # 0

\* (x & (MASK & ~RSSI_ENABLE_MASK)) != 0
UuidRuleBits(x) == (x % (SL_BT_HCI_FILTER_CONFIG_MASK + 1)) \div 2 # 0

\* a byte read through an int8_t lvalue
Int8(b) == IF b >= 128 THEN b - 256 ELSE b

\* a value stored into a uint8_t
Uint8(x) == x % 256

Zeros(n) == [i \in 1..n |-> 0]

-----------------------------------------------------------------------------
(* The event transport (the sl_btctrl_hci_event accessors), outside this    *)
(* module.  An event carries the results its accessors give: each status,  *)
(* its codes, its declared parameter length `len`, the number of bytes it    *)
(* really holds `avail`, and the report fields.                              *)

NoEvent == [kind |-> "none"]
HasEvent == event.kind = "event"

\* byte `off` of the HCI event packet (event code, length, parameters)
EventByte(ev, off) ==
  IF off = OFFSET_EVENT_CODE THEN ev.opcode
  ELSE IF off = 1 THEN Uint8(ev.len)
  ELSE IF off = 2 THEN ev.subevent_opcode
  ELSE IF off = 3 THEN 1
  ELSE IF off = OFFSET_EVENT_TYPE THEN ev.event_type
  ELSE IF off = OFFSET_ADDRESS_TYPE THEN ev.address_type
  ELSE IF off >= OFFSET_ADDRESS /\ off < OFFSET_ADDRESS + Len(ev.address)
       THEN ev.address[off - OFFSET_ADDRESS + 1]
  ELSE IF off = OFFSET_ADVERTISING_SID THEN ev.advertising_sid
  ELSE IF off = OFFSET_RSSI THEN ev.rssi
  ELSE IF off = OFFSET_DATA_LENGTH THEN ev.data_length
  ELSE IF off >= OFFSET_DATA /\ off - OFFSET_DATA < Len(ev.data)
       THEN ev.data[off - OFFSET_DATA + 1]
  ELSE 0

\* sl_btctrl_hci_event_get_parameters(event, buffer, size, 0, &bytes_copied):
\* copies at most `size` of the bytes the event holds
BytesCopied(ev, size) == Min(size, ev.avail)

\* buffer[off] after the copy into uint8_t buffer[HCI_ADV_REPORT_MAX_LEN] = { 0 }
BufferByte(ev, size, off) ==
  IF off < BytesCopied(ev, size) THEN EventByte(ev, off) ELSE 0

\* index of the last byte of `buffer`, counted from ext_adv_report->data
DataTop == HCI_ADV_REPORT_MAX_LEN - OFFSET_DATA - 1

\* ext_adv_report->data[k] in filter_by_uuid, for k <= DataTop
Data(ev, k) == BufferByte(ev, ev.len + 2, OFFSET_DATA + k)

\* number of leading bytes of data[] that the copy may have set
DataCopied(ev) == Max(0, BytesCopied(ev, ev.len + 2) - OFFSET_DATA)

-----------------------------------------------------------------------------
(* The configured UUID arrays: pointers into the storage of the last         *)
(* accepted configuration                                                    *)

NULL == [base |-> "null", off |-> 0]

\* uuid_array[k], read through the pointer kept in hci_event_filter
ListByte(mem, uuid_array, k) == mem[uuid_array.base].data[uuid_array.off + k + 1]

\* the loop indexes i = 0, size, 2*size, ... < length
Strides(length, size) == {i \in 0..(length - 1) : i % size = 0}

\* faulty variant: only the first byte of the UUID is compared
SameBytes_first_only(ev, at, mem, uuid_array, j, uuid_size) ==
  Data(ev, at) = ListByte(mem, uuid_array, j)

\* memcmp(&data[at], &uuid_array[j], uuid_size) == 0
SameBytes(ev, at, mem, uuid_array, j, uuid_size) ==
  \A k \in 0..(uuid_size - 1) : Data(ev, at + k) = ListByte(mem, uuid_array, j + k)

SetMin(S) == CHOOSE x \in S : \A y \in S : x <= y

\* filter_service_data_uuid, ad_data being &data[at]
filter_service_data_uuid(ev, mem, uuid_size, at, uuid_array_length, uuid_array) ==
  IF uuid_array_length = 0 THEN [r |-> "false", max_read |-> -1]
  ELSE IF at + uuid_size - 1 > DataTop THEN [r |-> UB, max_read |-> at + uuid_size - 1]
  ELSE [r |-> IF \E j \in Strides(uuid_array_length, uuid_size) :
                     SameBytes(ev, at, mem, uuid_array, j, uuid_size)
              THEN "true" ELSE "false",
        max_read |-> at + uuid_size - 1]

\* sl_filter_list_of_service_class_uuids, ad_data being &data[at].  The outer
\* index is a uint8_t: with uuid_size 4 and ad_len - 1 > 252 it wraps to 0.
sl_filter_list_of_service_class_uuids(ev, mem, uuid_size, ad_len, at, uuid_array_length, uuid_array) ==
  LET outer == Strides(ad_len - 1, uuid_size)
      wraps == \E i \in outer : i + uuid_size > 255 /\ Uint8(i + uuid_size) < ad_len - 1
      bad   == {i \in outer : at + i + uuid_size - 1 > DataTop}
      hit   == {i \in outer \ bad :
                  \E j \in Strides(uuid_array_length, uuid_size) :
                     SameBytes(ev, at + i, mem, uuid_array, j, uuid_size)}
  IN IF uuid_array_length = 0
       THEN [r |-> IF wraps THEN HANG ELSE "false", max_read |-> -1]
     ELSE IF hit # {} /\ (bad = {} \/ SetMin(hit) < SetMin(bad))
       THEN [r |-> "true", max_read |-> at + SetMin(hit) + uuid_size - 1]
     ELSE IF bad # {}
       THEN [r |-> UB, max_read |-> at + SetMin(bad) + uuid_size - 1]
     ELSE [r |-> "false",
           max_read |-> IF outer = {} THEN -1
                        ELSE at + (CHOOSE i \in outer : \A y \in outer : y <= i)
                                + uuid_size - 1]

\* filter_16bit_service / filter_32bit_service / filter_16bit_list / filter_32bit_list
filter_16bit_service(ev, mem, f, at) ==
  filter_service_data_uuid(ev, mem, 2, at, f.uuids_16bit.uuid_array_length,
                           f.uuids_16bit.uuid_array)
filter_32bit_service(ev, mem, f, at) ==
  filter_service_data_uuid(ev, mem, 4, at, f.uuids_32bit.uuid_array_length,
                           f.uuids_32bit.uuid_array)
\* faulty variant: only the first UUID of the payload is looked at
filter_16bit_list_first_only(ev, mem, f, ad_len, at) ==
  filter_service_data_uuid(ev, mem, 2, at, f.uuids_16bit.uuid_array_length,
                           f.uuids_16bit.uuid_array)
filter_16bit_list(ev, mem, f, ad_len, at) ==
  sl_filter_list_of_service_class_uuids(ev, mem, 2, ad_len, at,
      f.uuids_16bit.uuid_array_length, f.uuids_16bit.uuid_array)
filter_32bit_list(ev, mem, f, ad_len, at) ==
  sl_filter_list_of_service_class_uuids(ev, mem, 4, ad_len, at,
      f.uuids_32bit.uuid_array_length, f.uuids_32bit.uuid_array)

NoMatch == [r |-> "false", max_read |-> -1]

\* filter_ad_structure: the rule of the structure's type, when enabled
filter_ad_structure(ev, mem, f, ad_type, ad_len, at) ==
  LET config == f.filter_config
  IN IF BitSet(config, SL_BT_HCI_FILTER_CONFIG_SERVICE_DATA_UUID_16_BIT_ENABLE)
        /\ ad_type = SL_BT_HCI_AD_TYPE_SERVICE_DATA_UUID_16_BIT
       THEN filter_16bit_service(ev, mem, f, at)
     ELSE IF BitSet(config, SL_BT_HCI_FILTER_CONFIG_SERVICE_DATA_UUID_32_BIT_ENABLE)
        /\ ad_type = SL_BT_HCI_AD_TYPE_SERVICE_DATA_UUID_32_BIT
       THEN filter_32bit_service(ev, mem, f, at)
     ELSE IF BitSet(config, SL_BT_HCI_FILTER_CONFIG_INCOMPLETE_UUID_16_BIT_ENABLE)
        /\ ad_type = SL_BT_HCI_AD_TYPE_INCOMPLETE_SERVICE_CLASS_UUID_16_BIT
       THEN filter_16bit_list(ev, mem, f, ad_len, at)
     ELSE IF BitSet(config, SL_BT_HCI_FILTER_CONFIG_COMPLETE_UUID_16_BIT_ENABLE)
        /\ ad_type = SL_BT_HCI_AD_TYPE_COMPLETE_SERVICE_CLASS_UUID_16_BIT
       THEN filter_16bit_list(ev, mem, f, ad_len, at)
     ELSE IF BitSet(config, SL_BT_HCI_FILTER_CONFIG_INCOMPLETE_UUID_32_BIT_ENABLE)
        /\ ad_type = SL_BT_HCI_AD_TYPE_INCOMPLETE_SERVICE_CLASS_UUID_32_BIT
       THEN filter_32bit_list(ev, mem, f, ad_len, at)
     ELSE IF BitSet(config, SL_BT_HCI_FILTER_CONFIG_COMPLETE_UUID_32_BIT_ENABLE)
        /\ ad_type = SL_BT_HCI_AD_TYPE_COMPLETE_SERVICE_CLASS_UUID_32_BIT
       THEN filter_32bit_list(ev, mem, f, ad_len, at)
     ELSE NoMatch

-----------------------------------------------------------------------------
(* filter_by_uuid *)

\* apply_filter: the AD type is one of the six UUID types
apply_filter(ad_type) ==
  ad_type \in {SL_BT_HCI_AD_TYPE_SERVICE_DATA_UUID_16_BIT,
               SL_BT_HCI_AD_TYPE_SERVICE_DATA_UUID_32_BIT,
               SL_BT_HCI_AD_TYPE_INCOMPLETE_SERVICE_CLASS_UUID_16_BIT,
               SL_BT_HCI_AD_TYPE_COMPLETE_SERVICE_CLASS_UUID_16_BIT,
               SL_BT_HCI_AD_TYPE_INCOMPLETE_SERVICE_CLASS_UUID_32_BIT,
               SL_BT_HCI_AD_TYPE_COMPLETE_SERVICE_CLASS_UUID_32_BIT}

\* The loop from an index at or after the copied bytes, where buffer holds its
\* zero initialisation: every step reads ad_len 0 and ad_type 0, applies no
\* filter and advances by one, so data_len steps follow and they end with the
\* loop's exit, unless one of them reads past the end of buffer.
ZeroFilledSteps(data_len, current_idx, max_read) ==
  IF current_idx + data_len <= DataTop
    THEN [status |-> DISCARD, max_read |-> Max(max_read, current_idx + data_len)]
    ELSE [status |-> UB, max_read |-> DataTop + 1]

\* the bounds check made on each AD structure
LengthExceeds(ad_len, data_len) == ad_len > data_len

\* while (data_len != 0) { ... }.  data_len and current_idx are uint8_t, and
\* data_len + current_idx is constant modulo 256: each time the subtraction
\* wraps the loop is at the same data_len (255) and the same index, reading the
\* same memory, so a second wrap means that it never ends (`wrapped`).
RECURSIVE ScanLoop(_, _, _, _, _, _, _)
ScanLoop(ev, mem, f, data_len, current_idx, wrapped, max_read) ==
  IF data_len = 0 THEN [status |-> DISCARD, max_read |-> max_read]
  ELSE IF current_idx + 1 > DataTop
    THEN [status |-> UB, max_read |-> Max(max_read, current_idx + 1)]
  ELSE IF current_idx >= DataCopied(ev)
    THEN ZeroFilledSteps(data_len, current_idx, max_read)
  ELSE
    LET ad_len  == Data(ev, current_idx)
        ad_type == Data(ev, current_idx + 1)
        seen    == Max(max_read, current_idx + 1)
    IN IF LengthExceeds(ad_len, data_len) THEN [status |-> DISCARD, max_read |-> seen]
       ELSE
         LET m == IF apply_filter(ad_type)
                    THEN filter_ad_structure(ev, mem, f, ad_type, ad_len, current_idx + 2)
                    ELSE NoMatch
             seen2 == Max(seen, m.max_read)
         IN IF m.r = "true" THEN [status |-> ACCEPT, max_read |-> seen2]
            ELSE IF m.r \in {UB, HANG} THEN [status |-> m.r, max_read |-> seen2]
            ELSE IF ad_len = data_len /\ wrapped THEN [status |-> HANG, max_read |-> seen2]
            ELSE ScanLoop(ev, mem, f,
                          Uint8(data_len - (ad_len + 1)),
                          Uint8(current_idx + (ad_len + 1)),
                          wrapped \/ ad_len = data_len,
                          seen2)

\* faulty variant: the flag taken from bit 4 of the event type
IncompleteFlag_bit4(ev) == BitSet(BufferByte(ev, ev.len + 2, OFFSET_EVENT_TYPE), 4)

\* faulty variant: a report from a random address counts as incomplete
IncompleteFlag_or_random_address(ev) ==
  \/ BitSet(BufferByte(ev, ev.len + 2, OFFSET_EVENT_TYPE), 5)
  \/ BitSet(BufferByte(ev, ev.len + 2, OFFSET_ADDRESS_TYPE), 0)

\* ext_adv_report->event_type & (1 << 5), read from the copied buffer
IncompleteFlag(ev) == BitSet(BufferByte(ev, ev.len + 2, OFFSET_EVENT_TYPE), 5)

\* faulty variant: the sub-event code is not looked at
IsExtAdvReport_code_only(ev) == ev.opcode = HCI_EVENT_LE_META_EVENT

\* is the event an LE Extended Advertising Report
IsExtAdvReport(ev) ==
  ev.opcode = HCI_EVENT_LE_META_EVENT
  /\ ev.subevent_opcode = HCI_EVENT_LE_EXTENDED_ADVERTISING_REPORT

\* faulty variant: the branch for the last report of a chain is missing
FragmentPath_no_last(incomplete, flag) ==
  IF ~incomplete /\ flag THEN "first" ELSE "scan"

\* the fragment bypass: which branch the tracker and the flag select
FragmentPath(incomplete, flag) ==
  IF ~incomplete /\ flag THEN "first"
  ELSE IF incomplete /\ ~flag THEN "last"
  ELSE "scan"

\* faulty variant: a report that cannot be decoded ends the chain
TrackerAfter_reset_on_failure(path, incomplete) ==
  IF path = "first" THEN TRUE
  ELSE IF path \in {"last", "length", "parameters", "copied"} THEN FALSE
  ELSE incomplete

\* faulty variant: every return but that of a first report ends the chain
TrackerAfter_only_first_sets(path, incomplete) == path = "first"

\* faulty variant: the last report of a chain leaves the tracker set
TrackerAfter_last_keeps_chain(path, incomplete) ==
  IF path = "first" THEN TRUE ELSE incomplete

\* advertisment_report_incomplete when the function returns from `path`
TrackerAfter(path, incomplete) ==
  IF path = "first" THEN TRUE
  ELSE IF path = "last" THEN FALSE
  ELSE incomplete

\* faulty variant: only a copy longer than asked for is refused
LengthMismatch_longer_only(bytes_copied, len) == bytes_copied > len + 2

\* bytes_copied != len + 2
LengthMismatch(bytes_copied, len) == bytes_copied # len + 2

\* the place filter_by_uuid returns from
UuidPath(ev, f, incomplete) ==
  IF ~UuidRuleBits(f.filter_config) THEN "disabled"
  ELSE IF ev.opcode_status # SL_STATUS_OK THEN "opcode"
  ELSE IF ~IsExtAdvReport(ev) THEN "other"
  ELSE IF ev.length_status # SL_STATUS_OK THEN "length"
  ELSE IF ev.param_status # SL_STATUS_OK THEN "parameters"
  ELSE IF LengthMismatch(BytesCopied(ev, ev.len + 2), ev.len) THEN "copied"
  ELSE FragmentPath(incomplete, IncompleteFlag(ev))

\* The function: its return value, the tracker it leaves, the place it
\* returned from, and the largest index of data[] it read (-1: none).
filter_by_uuid(ev, mem, f, incomplete) ==
  LET path == UuidPath(ev, f, incomplete)
      data_len == BufferByte(ev, ev.len + 2, OFFSET_DATA_LENGTH)
      s == IF path = "scan" THEN ScanLoop(ev, mem, f, data_len, 0, FALSE, -1)
           ELSE [status |-> IF path \in {"disabled", "other", "first", "last"}
                              THEN ACCEPT ELSE DISCARD,
                 max_read |-> -1]
  IN [status |-> s.status,
      incomplete |-> TrackerAfter(path, incomplete),
      path |-> path,
      max_read |-> s.max_read,
      data_length |-> IF path = "scan" THEN data_len ELSE 0]

\* A read outside buffer gives whatever the stack holds there: the scan may
\* then end either way or never; it can accept only through a rule that is
\* enabled and has UUIDs to compare with.
CanMatch(f) ==
  \/ /\ f.uuids_16bit.uuid_array_length > 0
     /\ \E b \in {SL_BT_HCI_FILTER_CONFIG_SERVICE_DATA_UUID_16_BIT_ENABLE,
                  SL_BT_HCI_FILTER_CONFIG_INCOMPLETE_UUID_16_BIT_ENABLE,
                  SL_BT_HCI_FILTER_CONFIG_COMPLETE_UUID_16_BIT_ENABLE} :
           BitSet(f.filter_config, b)
  \/ /\ f.uuids_32bit.uuid_array_length > 0
     /\ \E b \in {SL_BT_HCI_FILTER_CONFIG_SERVICE_DATA_UUID_32_BIT_ENABLE,
                  SL_BT_HCI_FILTER_CONFIG_INCOMPLETE_UUID_32_BIT_ENABLE,
                  SL_BT_HCI_FILTER_CONFIG_COMPLETE_UUID_32_BIT_ENABLE} :
           BitSet(f.filter_config, b)

Outcomes(status, f) ==
  IF status = UB THEN {DISCARD, HANG} \cup (IF CanMatch(f) THEN {ACCEPT} ELSE {})
  ELSE {status}

-----------------------------------------------------------------------------
(* filter_by_rssi *)

\* faulty variant: the length checks ask only for the bytes up to the rssi field
ShortOfRssi_field_only(n) == n < OFFSET_RSSI + 1

\* the two length checks against RSSI_OFFSET
ShortOfRssi(n) == n < RSSI_OFFSET

\* faulty variant: a report at the threshold is discarded too
BelowThreshold_or_equal(rssi, rssi_threshold) == rssi <= rssi_threshold

\* ext_adv_report->rssi < hci_event_filter.rssi_threshold
BelowThreshold(rssi, rssi_threshold) == rssi < rssi_threshold

filter_by_rssi(ev, f) ==
  IF ~BitSet(f.filter_config, SL_BT_HCI_FILTER_CONFIG_RSSI_ENABLE) THEN ACCEPT
  ELSE IF ev.opcode_status # SL_STATUS_OK THEN DISCARD
  ELSE IF ~IsExtAdvReport(ev) THEN ACCEPT
  ELSE IF ev.length_status # SL_STATUS_OK THEN DISCARD
  ELSE IF ShortOfRssi(ev.len) THEN DISCARD
  ELSE IF ev.param_status # SL_STATUS_OK THEN DISCARD
  ELSE IF ShortOfRssi(BytesCopied(ev, HCI_ADV_REPORT_MAX_LEN)) THEN DISCARD
  ELSE IF BelowThreshold(Int8(BufferByte(ev, HCI_ADV_REPORT_MAX_LEN, OFFSET_RSSI)),
                         f.rssi_threshold)
    THEN DISCARD
  ELSE ACCEPT

-----------------------------------------------------------------------------
(* Configuration *)

\* the storage the UUID pointers of hci_event_filter may point into
Memory == [work |-> work_filter, user |-> user_filter]

\* faulty variant: the limits themselves are out of range
ThresholdOutOfRange_limits_too(rssi) ==
  rssi <= SL_BT_HCI_FILTER_RSSI_MIN \/ rssi >= SL_BT_HCI_FILTER_RSSI_MAX

\* faulty variant: the upper limit is not tested
ThresholdOutOfRange_below_only(rssi) == rssi < SL_BT_HCI_FILTER_RSSI_MIN

\* rssi < SL_BT_HCI_FILTER_RSSI_MIN || rssi > SL_BT_HCI_FILTER_RSSI_MAX
ThresholdOutOfRange(rssi) ==
  rssi < SL_BT_HCI_FILTER_RSSI_MIN \/ rssi > SL_BT_HCI_FILTER_RSSI_MAX

\* faulty variant: a list that fills its array is refused
OverCapacity_or_full(list_length, array_len) == list_length >= array_len

\* uuid16_list_length > SL_BT_HCI_FILTER_16BIT_UUID_ARRAY_LEN, and the same
\* test of the 32-bit list
OverCapacity(list_length, array_len) == list_length > array_len

\* the checks of sl_btctrl_hci_event_configure_filtering on a non-null buffer
\* laid out as struct sli_work_filter
ConfigStatus(user) ==
  IF OutsideMask(user.config) THEN SL_STATUS_INVALID_PARAMETER
  ELSE IF BitSet(user.config, SL_BT_HCI_FILTER_CONFIG_RSSI_ENABLE)
          /\ ThresholdOutOfRange(Int8(user.rssi_threshold))
    THEN SL_STATUS_INVALID_PARAMETER
  ELSE IF OverCapacity(user.data[1], SL_BT_HCI_FILTER_16BIT_UUID_ARRAY_LEN)
    THEN SL_STATUS_INVALID_PARAMETER
  ELSE IF OverCapacity(user.data[user.data[1] + 2],
                       SL_BT_HCI_FILTER_32BIT_UUID_ARRAY_LEN)
    THEN SL_STATUS_INVALID_PARAMETER
  ELSE SL_STATUS_OK

\* faulty variant: the 32-bit array starts at its own length byte
Uuid32ArrayIndex_at_length(uuid16_list_length) == uuid16_list_length + 1

\* &user_filter->data[uuid16_list_length + 2]
Uuid32ArrayIndex(uuid16_list_length) == uuid16_list_length + 2

\* the assignments to hci_event_filter made once the checks have passed;
\* `base` names the storage `user` lives in
ConfiguredFilter(user, base) ==
  LET uuid16_list_length == user.data[1]
      uuid32_list_length == user.data[uuid16_list_length + 2]
  IN [filter_config  |-> user.config,
      rssi_threshold |-> Int8(user.rssi_threshold),
      uuids_16bit    |-> [uuid_array_length |-> uuid16_list_length,
                          uuid_array |-> IF uuid16_list_length > 0
                                           THEN [base |-> base, off |-> 1]
                                           ELSE NULL],
      uuids_32bit    |-> [uuid_array_length |-> uuid32_list_length,
                          uuid_array |-> IF uuid32_list_length > 0
                                           THEN [base |-> base,
                                                 off |-> Uuid32ArrayIndex(uuid16_list_length)]
                                           ELSE NULL]]

\* sl_btctrl_hci_message_get_parameters(hcimsg, (uint8_t *)&work_filter, length):
\* the first `length` bytes of the packed struct are overwritten
CopyParameters(old, hcimsg) ==
  [config         |-> hcimsg.config,
   rssi_threshold |-> hcimsg.rssi_threshold,
   data           |-> [i \in 1..WORK_MEMORY |->
                         IF i <= hcimsg.length - 5 THEN hcimsg.data[i]
                         ELSE old.data[i]]]

\* uint8_t min_length = sizeof(filter_config) + sizeof(rssi_threshold)
min_length == 5
\* sizeof(struct sli_work_filter), packed, in a build with the given array
\* lengths: uint32_t config, int8_t rssi_threshold, uint8_t data[WORK_MEMORY]
SizeofWorkFilter(array_len_16, array_len_32) ==
  4 + 1 + (array_len_16 + array_len_32 + 2)

\* uint8_t max_length = sizeof(struct sli_work_filter)
max_length(size) == Uint8(size)

\* length < min_length, length > max_length
LengthRefused(length, size) == length < min_length \/ length > max_length(size)

\* the status hci_configure_filter_command holds before it reads the parameters
LengthStatus(hcimsg) ==
  IF LengthRefused(hcimsg.length,
                   SizeofWorkFilter(SL_BT_HCI_FILTER_16BIT_UUID_ARRAY_LEN,
                                    SL_BT_HCI_FILTER_32BIT_UUID_ARRAY_LEN))
    THEN SL_STATUS_INVALID_PARAMETER
  ELSE hcimsg.length_status

\* the build of the deployment capacities, no length put to its test
NoLengthCheck ==
  [array_len_16 |-> SL_BT_HCI_FILTER_16BIT_UUID_ARRAY_LEN,
   array_len_32 |-> SL_BT_HCI_FILTER_32BIT_UUID_ARRAY_LEN,
   checked |-> FALSE, length |-> 0, refused |-> FALSE]

\* the two length tests of hci_configure_filter_command made on a command of
\* `length` parameter bytes, in the build of length_check
CheckLength(length) ==
  /\ length_check' =
       [length_check EXCEPT
          !.checked = TRUE,
          !.length = length,
          !.refused = LengthRefused(length,
                                    SizeofWorkFilter(length_check.array_len_16,
                                                     length_check.array_len_32))]
  /\ UNCHANGED <<filterVars, queueVars, buttonVars, identifyVars>>

\* the last configuration request and what it was answered: for a command
\* the message, whether the handler took it, and the status and payload given
\* to sl_btctrl_hci_message_set_response; for a call its return value
NoResponse == [op |-> "none"]

\* no configuration command is between two of its statements
NoCall == [step |-> "none"]

\* the event has been handed to the callbacks once at most
NoPass == [path |-> "none"]

\* no event is with the callbacks, and none has been: no report decoded yet
NoInvocation == [order |-> "none", flag |-> FALSE]

\* faulty variant: every command is answered with the error code
ResponseStatus_always_invalid(status) == BT_ERR_INVALID

\* status == SL_STATUS_OK ? BT_OK : BT_ERR_INVALID
ResponseStatus(status) == IF status = SL_STATUS_OK THEN BT_OK ELSE BT_ERR_INVALID

\* static bool hci_configure_filter_command(struct sl_btctrl_hci_message *hcimsg)
hci_configure_filter_command(hcimsg) ==
  /\ ~HasEvent
  /\ IF hcimsg.opcode_status # SL_STATUS_OK
        \/ hcimsg.opcode # SL_BT_HCI_CONFIGURE_FILTERING_OPCODE
       THEN /\ response' = [op |-> "command", hcimsg |-> hcimsg,
                            handled |-> FALSE]
            /\ UNCHANGED <<hci_event_filter, work_filter>>
       ELSE LET copy   == LengthStatus(hcimsg) = SL_STATUS_OK
                          /\ hcimsg.param_status = SL_STATUS_OK
                wf     == IF copy THEN CopyParameters(work_filter, hcimsg)
                          ELSE work_filter
                status == IF LengthStatus(hcimsg) # SL_STATUS_OK
                            THEN LengthStatus(hcimsg)
                          ELSE IF hcimsg.param_status # SL_STATUS_OK
                            THEN hcimsg.param_status
                          ELSE ConfigStatus(wf)
            IN /\ work_filter' = wf
               /\ hci_event_filter' = IF status = SL_STATUS_OK
                                        THEN ConfiguredFilter(wf, "work")
                                        ELSE hci_event_filter
               /\ response' = [op |-> "command", hcimsg |-> hcimsg,
                               handled |-> TRUE,
                               status |-> ResponseStatus(status),
                               payload |-> 0]
  /\ UNCHANGED <<user_filter, advertisment_report_incomplete, event,
                 rssi_status, uuid_status, uuid_scan>>

NullFilter == [null |-> TRUE]

\* sl_status_t sl_btctrl_hci_event_configure_filtering(void *filter), called by
\* the application with storage of its own: storage that an accepted call has
\* made the filter point into is kept by the caller, a rejected buffer is not
\* that storage.
sl_btctrl_hci_event_configure_filtering(filter) ==
  /\ ~HasEvent
  /\ LET status == IF filter = NullFilter THEN SL_STATUS_NULL_POINTER
                   ELSE ConfigStatus(filter)
     IN /\ response' = [op |-> "api", filter |-> filter, status |-> status]
        /\ IF status = SL_STATUS_OK
             THEN /\ user_filter' = filter
                  /\ hci_event_filter' = ConfiguredFilter(filter, "user")
             ELSE UNCHANGED <<user_filter, hci_event_filter>>
  /\ UNCHANGED <<work_filter, advertisment_report_incomplete, event,
                 rssi_status, uuid_status, uuid_scan>>

-----------------------------------------------------------------------------
(* The event path: the host framework hands each event to both registered    *)
(* callbacks (sl_btctrl_rssi_uuid_filtering_init), in an order of its own.   *)

NoScan == [path |-> "none", max_read |-> -1, data_length |-> 0]
Returned(status) == status \in {ACCEPT, DISCARD}

Deliver(ev) ==
  /\ ~HasEvent
  /\ event' = ev
  /\ rssi_status' = "none"
  /\ uuid_status' = "none"
  /\ uuid_scan' = NoScan
  /\ UNCHANGED <<hci_event_filter, work_filter, user_filter,
                 advertisment_report_incomplete, response>>

\* faulty variant: filter_by_rssi ends a chain in progress
RssiStage_ends_chain ==
  /\ HasEvent
  /\ rssi_status = "none"
  /\ uuid_status # HANG
  /\ rssi_status' = filter_by_rssi(event, hci_event_filter)
  /\ advertisment_report_incomplete' = FALSE
  /\ UNCHANGED <<hci_event_filter, work_filter, user_filter,
                 event, uuid_status, uuid_scan, response>>

\* faulty variant: a report that filter_by_rssi discards ends the chain
RssiStage_discard_ends_chain ==
  /\ HasEvent
  /\ rssi_status = "none"
  /\ uuid_status # HANG
  /\ rssi_status' = filter_by_rssi(event, hci_event_filter)
  /\ advertisment_report_incomplete' =
       (advertisment_report_incomplete /\ rssi_status' = ACCEPT)
  /\ UNCHANGED <<hci_event_filter, work_filter, user_filter,
                 event, uuid_status, uuid_scan, response>>

RssiStage ==
  /\ HasEvent
  /\ rssi_status = "none"
  /\ uuid_status # HANG
  /\ rssi_status' = filter_by_rssi(event, hci_event_filter)
  /\ UNCHANGED <<hci_event_filter, work_filter, user_filter,
                 advertisment_report_incomplete, event, uuid_status, uuid_scan,
                 response>>

UuidStage ==
  /\ HasEvent
  /\ uuid_status = "none"
  /\ LET r == filter_by_uuid(event, Memory, hci_event_filter,
                             advertisment_report_incomplete)
     IN /\ uuid_status' \in Outcomes(r.status, hci_event_filter)
        /\ advertisment_report_incomplete' = r.incomplete
        /\ uuid_scan' = [path |-> r.path, max_read |-> r.max_read,
                         data_length |-> r.data_length]
  /\ UNCHANGED <<hci_event_filter, work_filter, user_filter, event, rssi_status,
                 response>>

\* both callbacks have returned: the framework delivers or drops the event
Release ==
  /\ HasEvent
  /\ Returned(rssi_status)
  /\ Returned(uuid_status)
  /\ event' = NoEvent
  /\ rssi_status' = "none"
  /\ uuid_status' = "none"
  /\ uuid_scan' = NoScan
  /\ UNCHANGED <<hci_event_filter, work_filter, user_filter,
                 advertisment_report_incomplete, response>>

-----------------------------------------------------------------------------
(* The circular queue manager of the OpenThread platform abstraction         *)
(* (protocol/openthread/platform-abstraction/efr32/circular_queue_manager):  *)
(* head, tail and the returned indexes are uint8_t; every function runs its  *)
(* reads and writes between CORE_ENTER_ATOMIC and CORE_EXIT_ATOMIC.          *)

EFR32_INVALID_QUEUE_INDEX == 255
CIRCULAR_QUEUE_SIZE_MIN == 2

\* void efr32CircularQueueInit(efr32CircularQueue_t *, const uint8_t aQueueSize)
efr32CircularQueueInit(aQueueSize) ==
  [maxSize |-> aQueueSize, head |-> 0, tail |-> 0, isFull |-> FALSE]

efr32CircularQueueIsFull(aQueueHandle) == aQueueHandle.isFull

\* faulty variant: isFull is not looked at
efr32CircularQueueIsEmpty_by_indexes(aQueueHandle) ==
  aQueueHandle.head = aQueueHandle.tail

efr32CircularQueueIsEmpty(aQueueHandle) ==
  aQueueHandle.head = aQueueHandle.tail /\ ~efr32CircularQueueIsFull(aQueueHandle)

\* no function has been called on the queue since efr32CircularQueueInit
NoQueueCall == [call |-> "efr32CircularQueueInit", index |-> EFR32_INVALID_QUEUE_INDEX]

\* faulty variant: the head is handed out although the queue is full
freeIndex_of_full_queue(aQueueHandle) == aQueueHandle.head

\* freeIndex = efr32CircularQueueIsFull(aQueueHandle)
\*               ? EFR32_INVALID_QUEUE_INDEX : aQueueHandle->head
freeIndex(aQueueHandle) ==
  IF efr32CircularQueueIsFull(aQueueHandle) THEN EFR32_INVALID_QUEUE_INDEX
  ELSE aQueueHandle.head

\* efr32QueueIndex_t efr32CircularQueueGetFreeIndex(efr32CircularQueue_t *):
\* otEXPECT(freeIndex < maxSize) jumps to exit when the index is not one
efr32CircularQueueGetFreeIndex ==
  /\ queue' = IF freeIndex(queue) < queue.maxSize
                THEN LET head == (queue.head + 1) % queue.maxSize
                     IN [queue EXCEPT !.head = head, !.isFull = (head = queue.tail)]
                ELSE queue
  /\ queue_index' = [call |-> "efr32CircularQueueGetFreeIndex",
                     index |-> freeIndex(queue)]
  /\ UNCHANGED <<filterVars, buttonVars, identifyVars, length_check>>

\* efr32QueueIndex_t efr32CircularQueueGetNextInuseIndex(efr32CircularQueue_t *)
efr32CircularQueueGetNextInuseIndex ==
  /\ queue_index' = [call |-> "efr32CircularQueueGetNextInuseIndex",
                     index |-> IF efr32CircularQueueIsEmpty(queue)
                                 THEN EFR32_INVALID_QUEUE_INDEX ELSE queue.tail]
  /\ UNCHANGED <<queue, filterVars, buttonVars, identifyVars, length_check>>

\* faulty variant: isFull is left as it is
efr32CircularQueueFreeIndex_keeps_full ==
  /\ queue' = [queue EXCEPT !.tail = (queue.tail + 1) % queue.maxSize]
  /\ queue_index' = [call |-> "efr32CircularQueueFreeIndex",
                     index |-> EFR32_INVALID_QUEUE_INDEX]
  /\ UNCHANGED <<filterVars, buttonVars, identifyVars, length_check>>

\* void efr32CircularQueueFreeIndex(efr32CircularQueue_t *)
efr32CircularQueueFreeIndex ==
  /\ queue' = [queue EXCEPT !.tail = (queue.tail + 1) % queue.maxSize,
                            !.isFull = FALSE]
  /\ queue_index' = [call |-> "efr32CircularQueueFreeIndex",
                     index |-> EFR32_INVALID_QUEUE_INDEX]
  /\ UNCHANGED <<filterVars, buttonVars, identifyVars, length_check>>

-----------------------------------------------------------------------------
(* The button-joining plugin of the Zigbee application framework             *)
(* (protocol/zigbee/app/framework/plugin/button-joining): the button         *)
(* interrupt records how long a button was down and activates the button's   *)
(* event; the event handler runs later, from the main loop.                  *)

BUTTON0 == 0
BUTTON1 == 1
BUTTON_HOLD_DURATION_MS == 5000

\* no button is down
NoneDown == [button \in {} |-> 0]

\* the button 0 event handler has not run
NoRun == [call |-> "none", held |-> 0]

\* elapsedTimeInt32u(oldTime, newTime): the difference of two uint32_t ticks.
\* oldTime is a tick read earlier and the ticks of this model stay far below
\* 2^32, so the unsigned subtraction does not wrap.
elapsedTimeInt32u(oldTime, newTime) == newTime - oldTime

\* sli_zigbee_af_button_joining_init_callback over the zero-initialised statics
ButtonsInit ==
  /\ buttonPressDurationMs = 0
  /\ timeMs = 0
  /\ buttonEvent = [button \in {BUTTON0, BUTTON1} |-> FALSE]
  /\ tick = 0
  /\ pressed = NoneDown
  /\ held = 0
  /\ button0_run = NoRun

\* emberAfHalButtonIsrCallback(button, BUTTON_PRESSED), the button being up
ButtonPressedIsr(button) ==
  /\ button \notin DOMAIN pressed
  /\ pressed' = [down \in DOMAIN pressed \cup {button} |->
                   IF down = button THEN tick ELSE pressed[down]]
  /\ buttonPressDurationMs' = 0
  /\ timeMs' = tick
  /\ UNCHANGED <<buttonEvent, tick, held, button0_run, filterVars, queueVars,
                 identifyVars, length_check>>

\* emberAfHalButtonIsrCallback(button, BUTTON_RELEASED), the button being down:
\* the duration is measured from timeMs, the one static both buttons write
ButtonReleasedIsr(button) ==
  /\ button \in DOMAIN pressed
  /\ pressed' = [down \in DOMAIN pressed \ {button} |-> pressed[down]]
  /\ buttonPressDurationMs' = elapsedTimeInt32u(timeMs, tick)
  /\ buttonEvent' = [buttonEvent EXCEPT ![button] = TRUE]
  /\ held' = IF button = BUTTON0 THEN tick - pressed[BUTTON0] ELSE held
  /\ UNCHANGED <<timeMs, tick, button0_run, filterVars, queueVars,
                 identifyVars, length_check>>

\* what emberAfNetworkState() may return
NetworkStates == {"EMBER_JOINED_NETWORK", "EMBER_NO_NETWORK", "EMBER_JOINING_NETWORK"}

\* the call emberAfPluginButtonJoiningButton0EventHandler makes
Button0Call(duration, networkState) ==
  IF duration >= BUTTON_HOLD_DURATION_MS THEN "emberLeaveNetwork"
  ELSE IF networkState = "EMBER_JOINED_NETWORK" THEN "permit join"
  ELSE IF networkState = "EMBER_NO_NETWORK" THEN "form or join"
  ELSE "none"

\* void emberAfPluginButtonJoiningButton0EventHandler(sl_zigbee_event_t *),
\* run by the event framework once the event is active
emberAfPluginButtonJoiningButton0EventHandler ==
  /\ buttonEvent[BUTTON0]
  /\ buttonEvent' = [buttonEvent EXCEPT ![BUTTON0] = FALSE]
  /\ \E networkState \in NetworkStates :
       button0_run' = [call |-> Button0Call(buttonPressDurationMs, networkState),
                       held |-> held]
  /\ UNCHANGED <<buttonPressDurationMs, timeMs, tick, pressed, held,
                 filterVars, queueVars,
                 identifyVars, length_check>>

\* void emberAfPluginButtonJoiningButton1EventHandler(sl_zigbee_event_t *)
emberAfPluginButtonJoiningButton1EventHandler ==
  /\ buttonEvent[BUTTON1]
  /\ buttonEvent' = [buttonEvent EXCEPT ![BUTTON1] = FALSE]
  /\ UNCHANGED <<buttonPressDurationMs, timeMs, tick, pressed, held, button0_run,
                 filterVars, queueVars,
                 identifyVars, length_check>>

-----------------------------------------------------------------------------
(* The identify-feedback plugin of the Zigbee application framework          *)
(* (protocol/zigbee/app/framework/plugin/identify-feedback): a table of the  *)
(* endpoints that are identifying and one periodic event that toggles the    *)
(* LEDs while any of them is.  Callbacks and the event handler run from the  *)
(* main loop, one at a time.                                                 *)

MaxIdentifyEndpoints == 4
EMBER_AF_IDENTIFY_CLUSTER_SERVER_ENDPOINT_COUNT == MaxIdentifyEndpoints

\* the index emberAfFindClusterServerEndpointIndex gives for an endpoint that
\* has no Identify server
NO_SERVER_INDEX == 255

\* emberAfFindClusterServerEndpointIndex(endpoint, ZCL_IDENTIFY_CLUSTER_ID):
\* endpoints 1, 2, ... carry the Identify servers, in this order
emberAfFindClusterServerEndpointIndex(endpoint) ==
  IF endpoint \in 1..EMBER_AF_IDENTIFY_CLUSTER_SERVER_ENDPOINT_COUNT
    THEN endpoint - 1
    ELSE NO_SERVER_INDEX

\* faulty variant: only the first entry of the table is looked at
haveIdentifyingEndpoint_first_only(table) == table[0]

\* static bool haveIdentifyingEndpoint(void)
haveIdentifyingEndpoint(table) ==
  \E i \in 0..(EMBER_AF_IDENTIFY_CLUSTER_SERVER_ENDPOINT_COUNT - 1) : table[i]

\* no callback of the plugin has run
NoIdentifyCall == [call |-> "none"]

\* the zero-initialised table and sli_zigbee_af_identify_init_callback
IdentifyInit ==
  /\ identifyTable =
       [i \in 0..(EMBER_AF_IDENTIFY_CLUSTER_SERVER_ENDPOINT_COUNT - 1) |-> FALSE]
  /\ provideFeedbackEvent = FALSE
  /\ leds = FALSE
  /\ identify_call = NoIdentifyCall

\* what a callback records of its call: its name, the index it found and the
\* table and the event it met
IdentifyCall(call, ep) ==
  identify_call' = [call |-> call, ep |-> ep, table |-> identifyTable,
                    event |-> provideFeedbackEvent]

\* void emberAfPluginIdentifyStartFeedbackCallback(uint8_t endpoint,
\*                                                 uint16_t identifyTime)
emberAfPluginIdentifyStartFeedbackCallback(endpoint) ==
  LET ep == emberAfFindClusterServerEndpointIndex(endpoint)
  IN /\ IF ep = NO_SERVER_INDEX
          THEN UNCHANGED <<identifyTable, provideFeedbackEvent>>
          ELSE /\ provideFeedbackEvent' =
                    IF ~haveIdentifyingEndpoint(identifyTable) THEN TRUE
                    ELSE provideFeedbackEvent
               /\ identifyTable' = [identifyTable EXCEPT ![ep] = TRUE]
     /\ IdentifyCall("emberAfPluginIdentifyStartFeedbackCallback", ep)
     /\ UNCHANGED <<leds, filterVars, queueVars, buttonVars, length_check>>

\* void emberAfPluginIdentifyStopFeedbackCallback(uint8_t endpoint)
emberAfPluginIdentifyStopFeedbackCallback(endpoint) ==
  LET ep == emberAfFindClusterServerEndpointIndex(endpoint)
  IN /\ IF ep = NO_SERVER_INDEX
          THEN UNCHANGED <<identifyTable, provideFeedbackEvent>>
          ELSE /\ identifyTable' = [identifyTable EXCEPT ![ep] = FALSE]
               /\ provideFeedbackEvent' =
                    IF haveIdentifyingEndpoint(identifyTable') THEN provideFeedbackEvent
                    ELSE FALSE
     /\ IdentifyCall("emberAfPluginIdentifyStopFeedbackCallback", ep)
     /\ UNCHANGED <<leds, filterVars, queueVars, buttonVars, length_check>>

\* void emberAfPluginIdentifyFeedbackProvideFeedbackEventHandler(sl_zigbee_event_t *),
\* run by the event framework when the scheduled event is due: the LEDs are
\* toggled and the event is scheduled again
emberAfPluginIdentifyFeedbackProvideFeedbackEventHandler ==
  /\ provideFeedbackEvent
  /\ leds' = ~leds
  /\ provideFeedbackEvent' = TRUE
  /\ IdentifyCall("emberAfPluginIdentifyFeedbackProvideFeedbackEventHandler",
                  NO_SERVER_INDEX)
  /\ UNCHANGED <<identifyTable, filterVars, queueVars, buttonVars, length_check>>

-----------------------------------------------------------------------------
(* Initial state: zero-initialised statics, then sli_bt_hci_filter_init *)

\* faulty variant: the threshold is left at its zero initialisation
sli_bt_hci_filter_init_no_threshold ==
  [filter_config  |-> SL_BT_HCI_FILTER_CONFIG,
   rssi_threshold |-> 0,
   uuids_16bit    |-> [uuid_array_length |-> 0, uuid_array |-> NULL],
   uuids_32bit    |-> [uuid_array_length |-> 0, uuid_array |-> NULL]]

sli_bt_hci_filter_init ==
  [filter_config  |-> SL_BT_HCI_FILTER_CONFIG,
   rssi_threshold |-> SL_BT_HCI_FILTER_RSSI_THRESHOLD,
   uuids_16bit    |-> [uuid_array_length |-> 0, uuid_array |-> NULL],
   uuids_32bit    |-> [uuid_array_length |-> 0, uuid_array |-> NULL]]

ZeroFilter == [config |-> 0, rssi_threshold |-> 0, data |-> Zeros(WORK_MEMORY)]

\* the filter's statics after sli_bt_hci_filter_init, no event and no request
FilterInit ==
  /\ hci_event_filter = sli_bt_hci_filter_init
  /\ work_filter = ZeroFilter
  /\ user_filter = ZeroFilter
  /\ advertisment_report_incomplete = FALSE
  /\ event = NoEvent
  /\ rssi_status = "none"
  /\ uuid_status = "none"
  /\ uuid_scan = NoScan
  /\ response = NoResponse

\* the filter alone, nothing under way
FilterIdle ==
  /\ FilterInit
  /\ configure_call = NoCall
  /\ first_pass = NoPass
  /\ invocation = NoInvocation

\* a queue of the smallest size, no function called on it
QueueIdle ==
  /\ queue = efr32CircularQueueInit(CIRCULAR_QUEUE_SIZE_MIN)
  /\ queue_index = NoQueueCall
  /\ outstanding = << >>

Init ==
  /\ FilterIdle
  /\ QueueIdle
  /\ ButtonsInit
  /\ IdentifyInit
  /\ length_check = NoLengthCheck

-----------------------------------------------------------------------------
(* Inputs *)

MaxPieces == 2      \* AD structures (or fragments of one) per generated blob

\* an LE Extended Advertising Report whose transport calls all succeed and
\* whose declared length is the number of bytes it holds, from the public
\* address 00:00:00:00:00:00 and advertising set 0
Report(event_type, rssi, data_length, data) ==
  [kind |-> "event",
   opcode_status |-> SL_STATUS_OK, opcode |-> HCI_EVENT_LE_META_EVENT,
   subevent_opcode |-> HCI_EVENT_LE_EXTENDED_ADVERTISING_REPORT,
   length_status |-> SL_STATUS_OK, len |-> OFFSET_DATA - 2 + Len(data),
   param_status |-> SL_STATUS_OK, avail |-> OFFSET_DATA + Len(data),
   event_type |-> event_type,
   address_type |-> 0, address |-> Zeros(6), advertising_sid |-> 0,
   rssi |-> rssi,
   data_length |-> data_length, data |-> data]

Pieces ==
  { <<3, 22, 15, 24>>,        \* Service Data 16-bit, UUID 0x180F
    <<3, 22, 9, 9>>,          \* Service Data 16-bit, UUID 0x0909
    <<5, 32, 10, 24, 0, 0>>,  \* Service Data 32-bit, UUID 0x0000180A
    <<5, 5, 10, 24, 0, 0>>,   \* Complete List 32-bit, UUID 0x0000180A
    <<3, 2, 2, 1>>,           \* Incomplete List 16-bit, UUID 0x0102
    <<2, 3, 2>>,              \* Complete List 16-bit with a one-byte payload
    <<2, 1, 6>>,              \* Flags
    <<1, 1>>,                 \* a type and no payload
    <<1, 22>>,                \* Service Data 16-bit with no payload
    <<0>>,                    \* a zero-length structure
    <<2, 9>>,                 \* declares one byte more than it has
    <<5, 1>> }                \* declares four bytes more than it has

RECURSIVE Blobs(_)
Blobs(n) ==
  IF n = 0 THEN {<< >>}
  ELSE LET shorter == Blobs(n - 1)
       IN shorter \cup {b \o p : b \in shorter, p \in Pieces}

EVENT_TYPE_COMPLETE == 0
EVENT_TYPE_INCOMPLETE == 32     \* bit 5: data incomplete, more to come

\* reports that differ in their AD data and in the incomplete flag
BlobReports ==
  {Report(t, 176, Len(b), b) :
     t \in {EVENT_TYPE_COMPLETE, EVENT_TYPE_INCOMPLETE}, b \in Blobs(MaxPieces)}

\* reports whose data_length field is not the number of AD bytes they hold
LengthReports ==
  {Report(t, 176, dl, b) :
     t \in {EVENT_TYPE_COMPLETE, EVENT_TYPE_INCOMPLETE},
     dl \in {1, 3, 255},
     b \in {<< >>, <<3, 22, 15, 24>>, <<255, 1>>, <<2, 9, 1, 3, 22, 15, 24>>}}

\* reports that differ in RSSI: -128, -121, -120, -81, -80, -79, -31, -30, -29, 0, 127
RssiReports ==
  {Report(EVENT_TYPE_COMPLETE, r, 0, << >>) :
     r \in {128, 135, 136, 175, 176, 177, 225, 226, 227, 0, 127}}

\* events whose decoding fails, and events that are no report
FaultyEvents ==
  LET good == Report(EVENT_TYPE_INCOMPLETE, 200, 4, <<3, 22, 15, 24>>)
      late == Report(EVENT_TYPE_COMPLETE, 200, 4, <<3, 22, 15, 24>>)
      quiet == Report(EVENT_TYPE_COMPLETE, 128, 4, <<3, 22, 9, 9>>)
  IN { [good EXCEPT !.opcode_status = SL_STATUS_FAIL],
       [good EXCEPT !.opcode = 5],
       [good EXCEPT !.subevent_opcode = 2],
       [good EXCEPT !.length_status = SL_STATUS_FAIL],
       [good EXCEPT !.param_status = SL_STATUS_FAIL],
       [good EXCEPT !.avail = 20],
       [late EXCEPT !.length_status = SL_STATUS_FAIL],
       [late EXCEPT !.param_status = SL_STATUS_FAIL],
       [late EXCEPT !.avail = 20],
       [good EXCEPT !.len = 17, !.avail = 19],
       [good EXCEPT !.len = 18, !.avail = 20, !.rssi = 100],
       [good EXCEPT !.len = 19, !.avail = 21],
       [good EXCEPT !.len = 26, !.avail = 19],
       [late EXCEPT !.len = 10, !.avail = 12],
       [quiet EXCEPT !.opcode = 5],
       [quiet EXCEPT !.subevent_opcode = 2] }

\* reports holding one UUID structure each, for the matchers
MatcherReports ==
  {Report(EVENT_TYPE_COMPLETE, 176, Len(b), b) :
     b \in { <<3, 22, 2, 1>>,                  \* Service Data 0x0102
             <<3, 22, 15, 9>>,                 \* Service Data 0x090F
             <<4, 22, 2, 1, 7>>,               \* Service Data 0x0102 and a byte
             <<5, 32, 10, 24, 0, 1>>,          \* Service Data 0x0100180A
             <<7, 32, 10, 24, 0, 0, 7, 7>>,    \* Service Data 0x0000180A and two bytes
             <<3, 3, 2, 1>>,                   \* Complete List {0x0102}
             <<3, 3, 9, 9>>,                   \* Complete List {0x0909}
             <<5, 3, 9, 9, 2, 1>>,             \* Complete List {0x0909, 0x0102}
             <<5, 2, 9, 9, 15, 24>>,           \* Incomplete List {0x0909, 0x180F}
             <<5, 2, 9, 15, 24, 9>>,           \* Incomplete List {0x0F09, 0x0918}
             <<1, 3>>,                         \* Complete List, empty
             <<5, 4, 10, 24, 0, 0>>,           \* Incomplete List {0x0000180A}
             <<9, 5, 1, 1, 1, 1, 10, 24, 0, 0>>,   \* Complete List, second matches
             <<9, 4, 1, 1, 10, 24, 0, 0, 1, 1>>,   \* Incomplete List, none aligned
             <<5, 5, 9, 9, 9, 9>> }}           \* Complete List {0x09090909}

Events ==
  BlobReports \cup LengthReports \cup RssiReports \cup FaultyEvents
    \cup MatcherReports

\* a configuration command that fills the work buffer
Pad(data) == data \o Zeros(WORK_MEMORY - Len(data))

Command(config, rssi_threshold, data) ==
  [opcode_status |-> SL_STATUS_OK, opcode |-> SL_BT_HCI_CONFIGURE_FILTERING_OPCODE,
   length_status |-> SL_STATUS_OK, length |-> 5 + Len(data),
   param_status |-> SL_STATUS_OK,
   config |-> config, rssi_threshold |-> rssi_threshold, data |-> data]

\* the 16-bit list {0x180F, 0x0102}, then the 32-bit list {0x0000180A}
BothLists == <<4, 15, 24, 2, 1, 4, 10, 24, 0, 0>>

FewCommands ==
  { Command(3, 176, Pad(<<2, 15, 24, 0>>)),   \* RSSI and Service Data 16-bit, {0x180F}
    Command(126, 0, Pad(BothLists)),          \* every UUID rule, both lists
    Command(8, 0, Pad(<<2, 2, 1, 0>>)),       \* Complete List 16-bit only, {0x0102}
    Command(1, 226, Pad(<<0, 0>>)),           \* RSSI only, threshold -30
    Command(0, 0, Pad(<<0, 0>>)),             \* no rule at all
    Command(128, 0, Pad(<<2, 9, 9, 0>>)) }    \* a bit outside the mask

-----------------------------------------------------------------------------
(* Specification of the filter under a few configurations and many events *)

Next ==
  \/ \E ev \in Events : Deliver(ev) /\ UNCHANGED elsewhere
  \/ RssiStage /\ UNCHANGED elsewhere
  \/ UuidStage /\ UNCHANGED elsewhere
  \/ Release /\ UNCHANGED elsewhere
  \/ \E hcimsg \in FewCommands :
       hci_configure_filter_command(hcimsg) /\ UNCHANGED elsewhere

Spec == Init /\ [][Next]_vars

-----------------------------------------------------------------------------
(* Specification of the configuration paths under many requests and a few    *)
(* events                                                                    *)

\* a command of some other opcode, or one the transport cannot read
Unreadable(hcimsg, field, value) == [hcimsg EXCEPT ![field] = value]

\* lists that fill both arrays
FullLists ==
  <<SL_BT_HCI_FILTER_16BIT_UUID_ARRAY_LEN>>
    \o [i \in 1..SL_BT_HCI_FILTER_16BIT_UUID_ARRAY_LEN |-> 9]
    \o <<SL_BT_HCI_FILTER_32BIT_UUID_ARRAY_LEN>>
    \o [i \in 1..SL_BT_HCI_FILTER_32BIT_UUID_ARRAY_LEN |-> 7]

ManyCommands ==
  FewCommands \cup
  { Command(2, 0, << >>),                       \* five bytes: no count field
    Command(3, 176, << >>),
    Command(2, 0, <<2, 15>>),                   \* one byte of the UUID announced
    Command(2, 0, <<2, 9, 9>>),                 \* no 32-bit count field
    Command(16, 0, <<0, 4, 10, 24>>),           \* half of the 32-bit UUID
    Command(2, 0, Pad(<<SL_BT_HCI_FILTER_16BIT_UUID_ARRAY_LEN + 1>>)),
    Command(16, 0, Pad(<<0, SL_BT_HCI_FILTER_32BIT_UUID_ARRAY_LEN + 1>>)),
    Command(1, 0, Pad(<<0, 0>>)),               \* threshold above the maximum
    Command(1, 135, Pad(<<0, 0>>)),             \* threshold below the minimum
    Command(1, 136, Pad(<<0, 0>>)),             \* threshold at the minimum
    Command(1, 227, Pad(<<0, 0>>)),             \* threshold one above the maximum
    Command(2, 127, Pad(<<2, 15, 24, 0>>)),     \* RSSI rule off, any threshold
    Command(129, 176, Pad(<<0, 0>>)),           \* bit 7 with a valid RSSI rule
    Command(126, 0, FullLists),                 \* both lists fill their arrays
    Command(126, 0, <<2, 15, 24, 2, 1, 0>>),    \* counts given in UUIDs: 2 and 0
    Command(2, 0, Pad(<<2, 15, 24, 0>>) \o <<0>>),   \* longer than the struct
    [Command(2, 0, << >>) EXCEPT !.length = 4],       \* shorter than the header
    Unreadable(Command(2, 0, Pad(<<2, 9, 9, 0>>)), "opcode", 8204),
    Unreadable(Command(2, 0, Pad(<<2, 9, 9, 0>>)), "opcode_status", SL_STATUS_FAIL),
    Unreadable(Command(2, 0, Pad(<<2, 9, 9, 0>>)), "length_status", SL_STATUS_FAIL),
    Unreadable(Command(2, 0, Pad(<<2, 9, 9, 0>>)), "param_status", SL_STATUS_FAIL) }

\* buffers handed to sl_btctrl_hci_event_configure_filtering by the application
Filter(config, rssi_threshold, data) ==
  [config |-> config, rssi_threshold |-> rssi_threshold, data |-> Pad(data)]

Filters ==
  { NullFilter,
    Filter(2, 0, <<2, 9, 9, 0>>),
    Filter(256, 0, <<2, 9, 9, 0>>),
    Filter(130, 0, <<2, 9, 9, 0>>),
    Filter(1, 136, <<0, 0>>),
    Filter(1, 135, <<0, 0>>),
    Filter(2, 0, FullLists),
    Filter(2, 0, <<SL_BT_HCI_FILTER_16BIT_UUID_ARRAY_LEN + 1>>),
    Filter(16, 0, <<0, SL_BT_HCI_FILTER_32BIT_UUID_ARRAY_LEN + 1>>) }

FewEvents ==
  { Report(EVENT_TYPE_COMPLETE, 176, 4, <<3, 22, 15, 24>>),
    Report(EVENT_TYPE_COMPLETE, 175, 4, <<3, 22, 9, 9>>),
    Report(EVENT_TYPE_INCOMPLETE, 176, 6, <<5, 32, 10, 24, 0, 0>>) }

NextConfig ==
  \/ \E hcimsg \in ManyCommands :
       hci_configure_filter_command(hcimsg) /\ UNCHANGED elsewhere
  \/ \E filter \in Filters :
       sl_btctrl_hci_event_configure_filtering(filter) /\ UNCHANGED elsewhere
  \/ \E ev \in FewEvents : Deliver(ev) /\ UNCHANGED elsewhere
  \/ RssiStage /\ UNCHANGED elsewhere
  \/ UuidStage /\ UNCHANGED elsewhere
  \/ Release /\ UNCHANGED elsewhere

SpecConfig == Init /\ [][NextConfig]_vars

-----------------------------------------------------------------------------
(* The configuration command taken one statement at a time.  The handler and *)
(* sl_btctrl_hci_event_configure_filtering hold no lock and mask no          *)
(* interrupt, so an event callback can run between any two statements.       *)

\* hci_configure_filter_command up to sl_btctrl_hci_message_get_parameters,
\* for a command that passes the opcode and the length tests: work_filter is
\* overwritten
BeginCommand(hcimsg) ==
  /\ configure_call = NoCall
  /\ hcimsg.opcode_status = SL_STATUS_OK
  /\ hcimsg.opcode = SL_BT_HCI_CONFIGURE_FILTERING_OPCODE
  /\ LengthStatus(hcimsg) = SL_STATUS_OK
  /\ hcimsg.param_status = SL_STATUS_OK
  /\ work_filter' = CopyParameters(work_filter, hcimsg)
  /\ configure_call' = [step |-> "checks", hcimsg |-> hcimsg,
                        filter |-> hci_event_filter, work |-> work_filter]
  /\ UNCHANGED <<hci_event_filter, user_filter, advertisment_report_incomplete,
                 event, rssi_status, uuid_status, uuid_scan, response, first_pass,
                 invocation, otherPrograms>>

\* the statement that follows `step` in sl_btctrl_hci_event_configure_filtering
StepAfter(step) ==
  CASE step = "checks"         -> "filter_config"
    [] step = "filter_config"  -> "rssi_threshold"
    [] step = "rssi_threshold" -> "uuids_16bit"
    [] step = "uuids_16bit"    -> "uuids_32bit"
    [] step = "uuids_32bit"    -> "none"

\* hci_event_filter after the assignment named `step`
Assigned(f, step, target) ==
  CASE step = "filter_config"  -> [f EXCEPT !.filter_config = target.filter_config]
    [] step = "rssi_threshold" -> [f EXCEPT !.rssi_threshold = target.rssi_threshold]
    [] step = "uuids_16bit"    -> [f EXCEPT !.uuids_16bit = target.uuids_16bit]
    [] step = "uuids_32bit"    -> [f EXCEPT !.uuids_32bit = target.uuids_32bit]

\* sl_btctrl_hci_message_set_response and the return of the handler
Respond(status) ==
  /\ configure_call' = NoCall
  /\ response' = [op |-> "command", hcimsg |-> configure_call.hcimsg,
                  handled |-> TRUE,
                  status |-> ResponseStatus(status),
                  payload |-> 0]

\* the next statement of the call: the checks, then the assignments to
\* hci_event_filter one after the other, the last one followed by the response
ConfigureStep ==
  /\ configure_call # NoCall
  /\ IF configure_call.step = "checks"
       THEN IF ConfigStatus(work_filter) = SL_STATUS_OK
              THEN /\ configure_call' = [configure_call EXCEPT !.step = StepAfter(@)]
                   /\ UNCHANGED <<hci_event_filter, response>>
              ELSE /\ Respond(ConfigStatus(work_filter))
                   /\ UNCHANGED hci_event_filter
       ELSE /\ hci_event_filter' = Assigned(hci_event_filter, configure_call.step,
                                            ConfiguredFilter(work_filter, "work"))
            /\ IF StepAfter(configure_call.step) = "none"
                 THEN Respond(SL_STATUS_OK)
                 ELSE /\ configure_call' = [configure_call EXCEPT !.step = StepAfter(@)]
                      /\ UNCHANGED response
  /\ UNCHANGED <<work_filter, user_filter, advertisment_report_incomplete,
                 event, rssi_status, uuid_status, uuid_scan, first_pass,
                 invocation, otherPrograms>>

NextTorn ==
  \/ \E hcimsg \in FewCommands : BeginCommand(hcimsg)
  \/ ConfigureStep
  \/ \E ev \in FewEvents : Deliver(ev) /\ UNCHANGED elsewhere
  \/ RssiStage /\ UNCHANGED elsewhere
  \/ UuidStage /\ UNCHANGED elsewhere
  \/ Release /\ UNCHANGED elsewhere

SpecTorn == Init /\ [][NextTorn]_vars

-----------------------------------------------------------------------------
(* Specification of an event handed to both callbacks a second time before   *)
(* it is released, the configuration left alone in between                   *)

\* both callbacks have returned and the framework calls them again for the
\* same event: what they returned the first time is kept in first_pass
InvokeAgain ==
  /\ HasEvent
  /\ Returned(rssi_status)
  /\ Returned(uuid_status)
  /\ first_pass = NoPass
  /\ first_pass' = [path |-> uuid_scan.path, max_read |-> uuid_scan.max_read,
                    rssi_status |-> rssi_status, uuid_status |-> uuid_status]
  /\ rssi_status' = "none"
  /\ uuid_status' = "none"
  /\ uuid_scan' = NoScan
  /\ UNCHANGED <<hci_event_filter, work_filter, user_filter,
                 advertisment_report_incomplete, event, response, configure_call,
                 invocation, otherPrograms>>

TwiceEvents == FewEvents \cup LengthReports \cup FaultyEvents \cup MatcherReports

NextTwice ==
  \/ \E ev \in TwiceEvents : Deliver(ev) /\ UNCHANGED elsewhere
  \/ RssiStage /\ UNCHANGED elsewhere
  \/ UuidStage /\ UNCHANGED elsewhere
  \/ InvokeAgain
  \/ Release /\ first_pass' = NoPass
             /\ UNCHANGED <<configure_call, invocation, otherPrograms>>
  \/ \E hcimsg \in FewCommands :
       hci_configure_filter_command(hcimsg) /\ UNCHANGED elsewhere

SpecTwice == Init /\ [][NextTwice]_vars

-----------------------------------------------------------------------------
(* Specification of the filter before any configuration request succeeds:    *)
(* the requests of SpecConfig, each taken only where it is refused           *)

DefaultEvents == TwiceEvents \cup RssiReports

NextDefault ==
  \/ \E hcimsg \in ManyCommands :
       /\ hci_configure_filter_command(hcimsg)
       /\ response'.handled => response'.status = BT_ERR_INVALID
       /\ UNCHANGED elsewhere
  \/ \E filter \in Filters :
       /\ sl_btctrl_hci_event_configure_filtering(filter)
       /\ response'.status # SL_STATUS_OK
       /\ UNCHANGED elsewhere
  \/ \E ev \in DefaultEvents : Deliver(ev) /\ UNCHANGED elsewhere
  \/ RssiStage /\ UNCHANGED elsewhere
  \/ UuidStage /\ UNCHANGED elsewhere
  \/ Release /\ UNCHANGED elsewhere

SpecDefault == Init /\ [][NextDefault]_vars

-----------------------------------------------------------------------------
(* Specification of the two callbacks called in either order: the framework  *)
(* they are registered with (sl_btctrl_rssi_uuid_filtering_init) promises no *)
(* order among its handlers.  What the event met is kept in `invocation`.    *)

\* the framework takes an event: the tracker and the configuration it meets
Handed(ev) ==
  /\ Deliver(ev)
  /\ invocation' = [order |-> << >>,
                    incomplete |-> advertisment_report_incomplete,
                    filter |-> hci_event_filter]
  /\ UNCHANGED <<configure_call, first_pass, otherPrograms>>

\* the framework has called `callback`
Called(callback) ==
  /\ invocation' = [invocation EXCEPT !.order = Append(@, callback)]
  /\ UNCHANGED <<configure_call, first_pass, otherPrograms>>

NextOrder ==
  \/ \E ev \in DefaultEvents : Handed(ev)
  \/ RssiStage /\ Called("filter_by_rssi")
  \/ UuidStage /\ Called("filter_by_uuid")
  \/ Release /\ invocation' = NoInvocation
             /\ UNCHANGED <<configure_call, first_pass, otherPrograms>>
  \/ \E hcimsg \in FewCommands :
       hci_configure_filter_command(hcimsg) /\ UNCHANGED elsewhere

SpecOrder == Init /\ [][NextOrder]_vars

-----------------------------------------------------------------------------
(* Specification of reports from several advertisers, interleaved.  Besides  *)
(* what the event met, `invocation` keeps who sent the report that opened    *)
(* the chain in progress, and the incomplete flag of the last report that    *)
(* filter_by_uuid copied out in full and took to its fragment test.          *)

\* address type, address and advertising set: the advertiser of Report and
\* three that differ from it in one field each
Advertisers ==
  { <<0, Zeros(6), 0>>,
    <<1, Zeros(6), 0>>,
    <<0, <<1, 2, 3, 4, 5, 6>>, 0>>,
    <<0, Zeros(6), 1>> }

\* the report `ev` as `advertiser` sends it
SentBy(advertiser, ev) ==
  [ev EXCEPT !.address_type = advertiser[1], !.address = advertiser[2],
             !.advertising_sid = advertiser[3]]

AdvertiserEvents ==
  {SentBy(advertiser, ev) :
     advertiser \in Advertisers, ev \in FewEvents \cup FaultyEvents \cup LengthReports}

\* the framework takes a report: a report that meets no chain would open one
\* of its own
HandedFrom(ev) ==
  /\ Deliver(ev)
  /\ invocation' = [order |-> << >>,
                    incomplete |-> advertisment_report_incomplete,
                    filter |-> hci_event_filter,
                    flag |-> invocation.flag,
                    opener |-> IF advertisment_report_incomplete
                                 THEN invocation.opener
                                 ELSE <<ev.address_type, ev.address, ev.advertising_sid>>]
  /\ UNCHANGED <<configure_call, first_pass, otherPrograms>>

\* the event leaves the callbacks
Released ==
  /\ Release
  /\ invocation' = [order |-> "none",
                    opener |-> invocation.opener,
                    flag |-> IF uuid_scan.path \in {"first", "last", "scan"}
                               THEN IncompleteFlag(event)
                               ELSE invocation.flag]
  /\ UNCHANGED <<configure_call, first_pass, otherPrograms>>

NextAdvertisers ==
  \/ \E ev \in AdvertiserEvents : HandedFrom(ev)
  \/ RssiStage /\ Called("filter_by_rssi")
  \/ UuidStage /\ Called("filter_by_uuid")
  \/ Released
  \/ \E hcimsg \in FewCommands :
       hci_configure_filter_command(hcimsg) /\ UNCHANGED elsewhere

SpecAdvertisers == Init /\ [][NextAdvertisers]_vars

-----------------------------------------------------------------------------
(* Specification of the filter under configurations that enable UUID rules   *)
(* over empty lists                                                          *)

EmptyListCommands ==
  { Command(126, 0, Pad(<<0, 0>>)),                 \* every UUID rule, no UUID
    Command(2, 0, Pad(<<0, 4, 10, 24, 0, 0>>)),     \* Service Data 16-bit, a 32-bit list only
    Command(48, 0, Pad(<<2, 15, 24, 0>>)),          \* two 32-bit rules, a 16-bit list only
    Command(9, 176, Pad(<<0, 0>>)),                 \* RSSI and Complete List 16-bit, no UUID
    Command(8, 0, Pad(<<2, 2, 1, 0>>)) }            \* Complete List 16-bit, {0x0102}

NextEmpty ==
  \/ \E ev \in TwiceEvents : Deliver(ev) /\ UNCHANGED elsewhere
  \/ RssiStage /\ UNCHANGED elsewhere
  \/ UuidStage /\ UNCHANGED elsewhere
  \/ Release /\ UNCHANGED elsewhere
  \/ \E hcimsg \in EmptyListCommands :
       hci_configure_filter_command(hcimsg) /\ UNCHANGED elsewhere

SpecEmpty == Init /\ [][NextEmpty]_vars

-----------------------------------------------------------------------------
(* Specification of the circular queue: a queue of any of a few sizes and    *)
(* the three functions called in any order                                   *)

MaxQueueSize == 4
UINT8_MAX == 255

\* aQueueSize >= CIRCULAR_QUEUE_SIZE_MIN, a uint8_t
QueueSizes == CIRCULAR_QUEUE_SIZE_MIN..MaxQueueSize \cup {UINT8_MAX}

InitQueue ==
  /\ FilterIdle
  /\ \E aQueueSize \in QueueSizes : queue = efr32CircularQueueInit(aQueueSize)
  /\ queue_index = NoQueueCall
  /\ outstanding = << >>
  /\ ButtonsInit
  /\ IdentifyInit
  /\ length_check = NoLengthCheck

NextQueue ==
  \/ efr32CircularQueueGetFreeIndex /\ UNCHANGED outstanding
  \/ efr32CircularQueueGetNextInuseIndex /\ UNCHANGED outstanding
  \/ efr32CircularQueueFreeIndex /\ UNCHANGED outstanding

SpecQueue == InitQueue /\ [][NextQueue]_vars

-----------------------------------------------------------------------------
(* Specification of the circular queue used as its callers use it: a         *)
(* producer takes free indexes, a consumer looks at the next index in use    *)
(* and frees it, and efr32CircularQueueFreeIndex is called only when the     *)
(* queue is not empty.  `outstanding` keeps the indexes handed out and not   *)
(* yet freed.                                                                *)

\* the producer takes an index, if there is one
Produce ==
  /\ efr32CircularQueueGetFreeIndex
  /\ outstanding' = IF queue_index'.index = EFR32_INVALID_QUEUE_INDEX
                      THEN outstanding
                      ELSE Append(outstanding, queue_index'.index)

\* the consumer frees the index it has dealt with
Consume ==
  /\ ~efr32CircularQueueIsEmpty(queue)
  /\ efr32CircularQueueFreeIndex
  /\ outstanding' = Tail(outstanding)

NextFifo ==
  \/ Produce
  \/ efr32CircularQueueGetNextInuseIndex /\ UNCHANGED outstanding
  \/ Consume

SpecFifo == InitQueue /\ [][NextFifo]_vars

-----------------------------------------------------------------------------
(* Specification of the buttons: time passes in steps of half the hold       *)
(* duration, either button goes down and up at any time, and each event      *)
(* handler runs at some time after its event became active                   *)

MaxTicks == 4
TickMs == BUTTON_HOLD_DURATION_MS \div 2

\* the millisecond tick moves on
Tick ==
  /\ tick < MaxTicks * TickMs
  /\ tick' = tick + TickMs
  /\ UNCHANGED <<buttonPressDurationMs, timeMs, buttonEvent, pressed, held,
                 button0_run, filterVars, queueVars,
                 identifyVars, length_check>>

NextButtons ==
  \/ Tick
  \/ \E button \in {BUTTON0, BUTTON1} : ButtonPressedIsr(button)
  \/ \E button \in {BUTTON0, BUTTON1} : ButtonReleasedIsr(button)
  \/ emberAfPluginButtonJoiningButton0EventHandler
  \/ emberAfPluginButtonJoiningButton1EventHandler

SpecButtons == Init /\ [][NextButtons]_vars

-----------------------------------------------------------------------------
(* Specification of the length test of the configuration command in builds   *)
(* of several list capacities                                                *)

\* SL_BT_HCI_FILTER_16BIT_UUID_ARRAY_LEN and SL_BT_HCI_FILTER_32BIT_UUID_ARRAY_LEN
\* of the builds: numbers of UUIDs times the width, up to 255 bytes
ArrayLengths16 == {0, 2, 4, 124, 126, 254}
ArrayLengths32 == {0, 4, 124, 128, 252}

\* parameter lengths around the two limits of a build, and a few others
CommandLengths(build) ==
  LET size == SizeofWorkFilter(build.array_len_16, build.array_len_32)
  IN (0..8) \cup {size - 1, size, size + 1} \cup {255, 256, 257}

InitLength ==
  /\ FilterIdle
  /\ QueueIdle
  /\ ButtonsInit
  /\ IdentifyInit
  /\ \E array_len_16 \in ArrayLengths16, array_len_32 \in ArrayLengths32 :
       length_check = [NoLengthCheck EXCEPT !.array_len_16 = array_len_16,
                                            !.array_len_32 = array_len_32]

NextLength == \E length \in CommandLengths(length_check) : CheckLength(length)

SpecLength == InitLength /\ [][NextLength]_vars

-----------------------------------------------------------------------------
(* Specification of the identify-feedback plugin: start and stop callbacks   *)
(* for endpoints with and without an Identify server, in any order, and the  *)
(* event handler whenever the event is scheduled                             *)

\* the endpoints with an Identify server, endpoint 0 and one beyond them
IdentifyEndpoints == 0..(EMBER_AF_IDENTIFY_CLUSTER_SERVER_ENDPOINT_COUNT + 1)

NextIdentify ==
  \/ \E endpoint \in IdentifyEndpoints :
       emberAfPluginIdentifyStartFeedbackCallback(endpoint)
  \/ \E endpoint \in IdentifyEndpoints :
       emberAfPluginIdentifyStopFeedbackCallback(endpoint)
  \/ emberAfPluginIdentifyFeedbackProvideFeedbackEventHandler

SpecIdentify == Init /\ [][NextIdentify]_vars

-----------------------------------------------------------------------------
(* The AD data of a report read as a sequence of AD structures: a length     *)
(* byte, then `length` bytes of which the first is the type.  Used to state  *)
(* the properties below, not by the filter.                                  *)

\* some structure, met at 0-based position p or later, declares a length
\* greater than the number of bytes left from p on
RECURSIVE DeclaresTooMuch(_, _)
DeclaresTooMuch(blob, p) ==
  IF p >= Len(blob) THEN FALSE
  ELSE IF blob[p + 1] > Len(blob) - p THEN TRUE
  ELSE DeclaresTooMuch(blob, p + blob[p + 1] + 1)

\* the structures from position p on fill the blob exactly
RECURSIVE WellFormed(_, _)
WellFormed(blob, p) ==
  IF p = Len(blob) THEN TRUE
  ELSE IF p + 1 + blob[p + 1] > Len(blob) THEN FALSE
  ELSE WellFormed(blob, p + blob[p + 1] + 1)

\* the structures of a well-formed blob that have a type: [type, payload]
RECURSIVE AdStructures(_, _)
AdStructures(blob, p) ==
  IF p >= Len(blob) THEN {}
  ELSE LET length == blob[p + 1]
           rest == AdStructures(blob, p + length + 1)
       IN IF length = 0 THEN rest
          ELSE rest \cup {[type |-> blob[p + 2],
                           payload |-> SubSeq(blob, p + 3, p + 1 + length)]}

\* the configured UUIDs of one width, as the set of their byte sequences
ConfiguredUuids(mem, uuids, uuid_size) ==
  {[k \in 1..uuid_size |-> ListByte(mem, uuids.uuid_array, j + k - 1)] :
     j \in Strides(uuids.uuid_array_length, uuid_size)}

\* the UUIDs packed in a payload
PackedUuids(payload, uuid_size) ==
  {SubSeq(payload, j + 1, j + uuid_size) :
     j \in {i \in Strides(Len(payload), uuid_size) : i + uuid_size <= Len(payload)}}

\* the rule bit and the UUID width of an AD type (0: no UUID type)
RuleBit(type) ==
  CASE type = SL_BT_HCI_AD_TYPE_SERVICE_DATA_UUID_16_BIT -> 1
    [] type = SL_BT_HCI_AD_TYPE_INCOMPLETE_SERVICE_CLASS_UUID_16_BIT -> 2
    [] type = SL_BT_HCI_AD_TYPE_COMPLETE_SERVICE_CLASS_UUID_16_BIT -> 3
    [] type = SL_BT_HCI_AD_TYPE_SERVICE_DATA_UUID_32_BIT -> 4
    [] type = SL_BT_HCI_AD_TYPE_INCOMPLETE_SERVICE_CLASS_UUID_32_BIT -> 5
    [] type = SL_BT_HCI_AD_TYPE_COMPLETE_SERVICE_CLASS_UUID_32_BIT -> 6
    [] OTHER -> 0

\* the structure is of an enabled rule's type and its UUID (service data) or
\* one of its UUIDs (list) is a configured UUID of that width
StructureMatches(st, mem, f) ==
  LET bit == RuleBit(st.type)
      uuid_size == IF bit <= 3 THEN 2 ELSE 4
      configured == ConfiguredUuids(mem, IF bit <= 3 THEN f.uuids_16bit
                                         ELSE f.uuids_32bit, uuid_size)
  IN /\ bit # 0
     /\ BitSet(f.filter_config, bit)
     /\ IF bit \in {1, 4}
          THEN /\ Len(st.payload) >= uuid_size
               /\ SubSeq(st.payload, 1, uuid_size) \in configured
          ELSE PackedUuids(st.payload, uuid_size) \cap configured # {}

\* the report reached the scan of filter_by_uuid and holds exactly the AD
\* bytes its data_length field announces
ScannedWholeBlob ==
  /\ HasEvent
  /\ uuid_scan.path = "scan"
  /\ event.data_length = Len(event.data)
  /\ event.len + 2 = OFFSET_DATA + Len(event.data)
  /\ event.avail = event.len + 2

\* every transport call on the event succeeds and gives the declared bytes
Decodes(ev) ==
  /\ ev.opcode_status = SL_STATUS_OK
  /\ IsExtAdvReport(ev)
  /\ ev.length_status = SL_STATUS_OK
  /\ ev.param_status = SL_STATUS_OK
  /\ ev.avail >= ev.len + 2
  /\ ev.len + 2 > OFFSET_EVENT_TYPE

\* the report's own incomplete-data flag
ReportIncomplete(ev) == BitSet(ev.event_type, 5)

\* this step is filter_by_uuid returning
UuidReturns == HasEvent /\ uuid_status = "none" /\ uuid_status' # "none"

UuidRuleEnabled == UuidRuleBits(hci_event_filter.filter_config)
RssiRuleEnabled == BitSet(hci_event_filter.filter_config,
                          SL_BT_HCI_FILTER_CONFIG_RSSI_ENABLE)

-----------------------------------------------------------------------------
(* Claims *)

\* C1: while scanning, filter_by_uuid reads no byte of data[] at an index
\* greater than or equal to data_length.
C1_NoReadPastBlob ==
  uuid_scan.path = "scan" => uuid_scan.max_read < uuid_scan.data_length

\* C2: with a UUID rule enabled and no fragment bypass, a report holding an AD
\* structure that declares more than the bytes left is discarded, wherever
\* that structure is.
C2_OverrunDiscardsWholeEvent ==
  (ScannedWholeBlob /\ DeclaresTooMuch(event.data, 0)) => uuid_status = DISCARD

\* C3: a scanned report with a well-formed blob is accepted if and only if
\* one of its AD structures is of an enabled rule's type and matches the
\* configured list of that width.
C3_AcceptIffSomeStructureMatches ==
  (ScannedWholeBlob /\ WellFormed(event.data, 0))
    => (uuid_status = ACCEPT
          <=> \E st \in AdStructures(event.data, 0) :
                 StructureMatches(st, Memory, hci_event_filter))

\* C4 as stated: a report with the incomplete flag set, given to filter_by_uuid
\* while the tracker is Idle, is accepted and the tracker becomes InChain.
C4_FirstFragmentAccepted_AnyConfig ==
  [][(UuidReturns /\ Decodes(event) /\ ReportIncomplete(event)
      /\ ~advertisment_report_incomplete)
       => (uuid_status' = ACCEPT /\ advertisment_report_incomplete')]_vars

\* C4 amended: the same, when at least one UUID rule is enabled.
C4_FirstFragmentAccepted ==
  [][(UuidReturns /\ UuidRuleEnabled /\ Decodes(event) /\ ReportIncomplete(event)
      /\ ~advertisment_report_incomplete)
       => (uuid_status' = ACCEPT /\ advertisment_report_incomplete'
           /\ uuid_scan'.path # "scan")]_vars

\* C4 witness: a first fragment whose only UUID is not configured went through
C4_Witness ==
  /\ HasEvent /\ UuidRuleEnabled
  /\ ReportIncomplete(event) /\ event.data = <<3, 22, 9, 9>>
  /\ uuid_scan.path = "first" /\ uuid_status = ACCEPT
  /\ advertisment_report_incomplete

\* C5 as stated: while the tracker is InChain, a report with the flag clear is
\* accepted without a scan and the tracker becomes Idle; a report with the
\* flag set leaves the tracker InChain.
C5_LastFragmentAccepted_AnyConfig ==
  [][(UuidReturns /\ Decodes(event) /\ advertisment_report_incomplete)
       => IF ReportIncomplete(event)
            THEN advertisment_report_incomplete'
            ELSE /\ uuid_status' = ACCEPT
                 /\ ~advertisment_report_incomplete'
                 /\ uuid_scan'.path # "scan"]_vars

\* C5 amended: the same, when at least one UUID rule is enabled.
C5_LastFragmentAccepted ==
  [][(UuidReturns /\ UuidRuleEnabled /\ Decodes(event)
      /\ advertisment_report_incomplete)
       => IF ReportIncomplete(event)
            THEN advertisment_report_incomplete'
            ELSE /\ uuid_status' = ACCEPT
                 /\ ~advertisment_report_incomplete'
                 /\ uuid_scan'.path # "scan"]_vars

\* C5 witness: a last fragment whose only UUID is not configured went through
C5_Witness ==
  /\ HasEvent /\ UuidRuleEnabled
  /\ ~ReportIncomplete(event) /\ event.data = <<3, 22, 9, 9>>
  /\ uuid_scan.path = "last" /\ uuid_status = ACCEPT
  /\ ~advertisment_report_incomplete

\* C6: the tracker starts Idle and changes only when filter_by_uuid, with a
\* UUID rule enabled and on a decoded report, sees the flag set while Idle or
\* clear while InChain, and then it returns accept; any other step leaves it.
C6_TrackerTransitions ==
  /\ advertisment_report_incomplete = FALSE
  /\ [][advertisment_report_incomplete' # advertisment_report_incomplete
          => /\ UuidReturns
             /\ uuid_status' = ACCEPT
             /\ UuidRuleEnabled
             /\ Decodes(event)
             /\ advertisment_report_incomplete' = ReportIncomplete(event)]_vars

\* C6 witness: a report that could not be decoded arrived in mid-chain
C6_Witness ==
  /\ HasEvent
  /\ uuid_scan.path = "parameters" /\ uuid_status = DISCARD
  /\ advertisment_report_incomplete

\* a report that filter_by_rssi can read up to RSSI_OFFSET
LongEnoughForRssi(ev) ==
  /\ ev.opcode_status = SL_STATUS_OK
  /\ IsExtAdvReport(ev)
  /\ ev.length_status = SL_STATUS_OK
  /\ ev.param_status = SL_STATUS_OK
  /\ ev.len >= RSSI_OFFSET
  /\ ev.avail >= RSSI_OFFSET

\* C7: with the RSSI rule enabled, a report long enough to reach the RSSI field
\* is accepted if and only if its signed RSSI is at least the threshold.
C7_RssiAcceptIffAtLeastThreshold ==
  (HasEvent /\ Returned(rssi_status) /\ RssiRuleEnabled /\ LongEnoughForRssi(event))
    => (rssi_status = ACCEPT
          <=> Int8(event.rssi) >= hci_event_filter.rssi_threshold)

\* C7 witness: a report at the threshold was accepted
C7_Witness ==
  /\ HasEvent /\ RssiRuleEnabled /\ LongEnoughForRssi(event)
  /\ Int8(event.rssi) = hci_event_filter.rssi_threshold
  /\ rssi_status = ACCEPT

\* C8: with the RSSI rule enabled, a report whose length or parameters cannot
\* be retrieved, or whose length or copied byte count is below RSSI_OFFSET, is
\* discarded.
C8_UndecodableDiscardedByRssi ==
  (HasEvent /\ rssi_status # "none" /\ RssiRuleEnabled
   /\ event.opcode_status = SL_STATUS_OK /\ IsExtAdvReport(event)
   /\ (\/ event.length_status # SL_STATUS_OK
       \/ event.param_status # SL_STATUS_OK
       \/ event.len < RSSI_OFFSET
       \/ event.avail < RSSI_OFFSET))
    => rssi_status = DISCARD

\* C8 witness: a report two bytes short of RSSI_OFFSET, its RSSI above the
\* threshold, was discarded
C8_Witness ==
  /\ HasEvent /\ RssiRuleEnabled
  /\ event.len = RSSI_OFFSET - 2 /\ event.avail = RSSI_OFFSET
  /\ Int8(event.rssi) > hci_event_filter.rssi_threshold
  /\ rssi_status = DISCARD

\* the configuration as the stages see it: the bitmask, the threshold, and
\* each list's length and bytes read through its pointer
UuidBytes(mem, uuids) ==
  [k \in 0..(uuids.uuid_array_length - 1) |-> ListByte(mem, uuids.uuid_array, k)]

ActiveConfiguration ==
  [filter_config  |-> hci_event_filter.filter_config,
   rssi_threshold |-> hci_event_filter.rssi_threshold,
   uuids_16bit    |-> UuidBytes(Memory, hci_event_filter.uuids_16bit),
   uuids_32bit    |-> UuidBytes(Memory, hci_event_filter.uuids_32bit)]

\* the request was answered with an error
Rejected(r) ==
  \/ r.op = "command" /\ r.handled /\ r.status # BT_OK
  \/ r.op = "api" /\ r.status # SL_STATUS_OK

\* C9: a step that handles a configuration request and rejects it leaves the
\* active configuration as it was: bitmask, threshold, list lengths and the
\* UUID bytes the matchers read.
C9_RejectedConfigurationChangesNothing ==
  [][(~HasEvent /\ ~HasEvent' /\ Rejected(response'))
       => ActiveConfiguration' = ActiveConfiguration]_vars

\* the bytes a command carries after the bitmask and the threshold do not
\* hold the 16-bit count, the 16-bit UUID bytes it announces, the 32-bit count
\* and the 32-bit UUID bytes it announces
TooShortForCounts(hcimsg) ==
  LET n == hcimsg.length - min_length
  IN \/ n < 1
     \/ n < hcimsg.data[1] + 2
     \/ n < hcimsg.data[1] + 2 + hcimsg.data[hcimsg.data[1] + 2]

\* C10: a configuration command too short for the count fields and the UUID
\* bytes it declares is answered with the invalid status.
C10_ShortCommandRejected ==
  (/\ response.op = "command"
   /\ response.handled
   /\ response.hcimsg.length_status = SL_STATUS_OK
   /\ response.hcimsg.param_status = SL_STATUS_OK
   /\ TooShortForCounts(response.hcimsg))
    => response.status = BT_ERR_INVALID

-----------------------------------------------------------------------------
(* Configuration requests as the validator is specified to read them *)

\* the count byte of the 16-bit list, or that of the 32-bit list behind a
\* 16-bit list that fits, is greater than the capacity of its array
DeclaresOverCapacity(data) ==
  /\ Len(data) >= 1
  /\ \/ data[1] > SL_BT_HCI_FILTER_16BIT_UUID_ARRAY_LEN
     \/ /\ Len(data) >= data[1] + 2
        /\ data[data[1] + 2] > SL_BT_HCI_FILTER_32BIT_UUID_ARRAY_LEN

\* both count bytes and the bytes they announce are there, within capacity,
\* and the whole is no longer than the room for it
ListsWithinCapacity(data) ==
  /\ Len(data) >= 1
  /\ Len(data) <= WORK_MEMORY
  /\ data[1] <= SL_BT_HCI_FILTER_16BIT_UUID_ARRAY_LEN
  /\ Len(data) >= data[1] + 2
  /\ data[data[1] + 2] <= SL_BT_HCI_FILTER_32BIT_UUID_ARRAY_LEN
  /\ Len(data) >= data[1] + 2 + data[data[1] + 2]

\* no bit outside bits 0..6
BitsWithinMask(config) == config < 128

\* the threshold is inside [-120, -30] or the RSSI rule (bit 0) is off
ThresholdAllowed(config, rssi_threshold) ==
  config % 2 = 1 => (Int8(rssi_threshold) >= -120 /\ Int8(rssi_threshold) <= -30)

\* the last request was a command the handler took and could read
CommandRead ==
  /\ response.op = "command"
  /\ response.handled
  /\ response.hcimsg.length_status = SL_STATUS_OK
  /\ response.hcimsg.param_status = SL_STATUS_OK

\* the last request was a call with a buffer
CallWithBuffer == response.op = "api" /\ response.filter # NullFilter

\* C11: a request whose 16-bit or 32-bit count exceeds the capacity of that
\* list is rejected with the invalid-parameter status; an otherwise valid one
\* whose counts are within capacity, the capacity itself included, is accepted.
C11_CountsAgainstCapacity ==
  /\ (response.op = "command" /\ response.handled
      /\ DeclaresOverCapacity(response.hcimsg.data))
       => response.status = BT_ERR_INVALID
  /\ (CallWithBuffer /\ DeclaresOverCapacity(response.filter.data))
       => response.status = SL_STATUS_INVALID_PARAMETER
  /\ (CommandRead /\ BitsWithinMask(response.hcimsg.config)
      /\ ThresholdAllowed(response.hcimsg.config, response.hcimsg.rssi_threshold)
      /\ ListsWithinCapacity(response.hcimsg.data))
       => response.status = BT_OK
  /\ (CallWithBuffer /\ BitsWithinMask(response.filter.config)
      /\ ThresholdAllowed(response.filter.config, response.filter.rssi_threshold)
      /\ ListsWithinCapacity(response.filter.data))
       => response.status = SL_STATUS_OK

\* C11 witness: a command whose two lists fill their arrays was accepted
C11_Witness ==
  /\ CommandRead
  /\ response.hcimsg.data = FullLists
  /\ response.status = BT_OK
  /\ hci_event_filter.uuids_16bit.uuid_array_length
       = SL_BT_HCI_FILTER_16BIT_UUID_ARRAY_LEN
  /\ hci_event_filter.uuids_32bit.uuid_array_length
       = SL_BT_HCI_FILTER_32BIT_UUID_ARRAY_LEN

\* C12: a request with a bit outside bits 0..6 is rejected with the
\* invalid-parameter status whatever else it holds; a call without a buffer
\* is rejected with the null-pointer status.
C12_BitsOutsideMaskAndNull ==
  /\ (response.op = "command" /\ response.handled
      /\ ~BitsWithinMask(response.hcimsg.config))
       => response.status = BT_ERR_INVALID
  /\ (CallWithBuffer /\ ~BitsWithinMask(response.filter.config))
       => response.status = SL_STATUS_INVALID_PARAMETER
  /\ (response.op = "api" /\ response.filter = NullFilter)
       => response.status = SL_STATUS_NULL_POINTER

\* C12 witness: bit 7 beside a valid RSSI rule and valid lists was rejected
C12_Witness ==
  /\ CommandRead
  /\ response.hcimsg.config = 129
  /\ ThresholdAllowed(1, response.hcimsg.rssi_threshold)
  /\ ListsWithinCapacity(response.hcimsg.data)
  /\ response.status = BT_ERR_INVALID

\* C13: a request with a valid bitmask and valid lists is accepted if and only
\* if the RSSI rule is off or the signed threshold is inside [-120, -30].
C13_ThresholdRange ==
  /\ (CommandRead /\ BitsWithinMask(response.hcimsg.config)
      /\ ListsWithinCapacity(response.hcimsg.data))
       => (response.status = BT_OK
             <=> ThresholdAllowed(response.hcimsg.config,
                                  response.hcimsg.rssi_threshold))
  /\ (CallWithBuffer /\ BitsWithinMask(response.filter.config)
      /\ ListsWithinCapacity(response.filter.data))
       => (response.status = SL_STATUS_OK
             <=> ThresholdAllowed(response.filter.config,
                                  response.filter.rssi_threshold))

\* C13 witness: the RSSI rule with the threshold -120 was accepted
C13_Witness ==
  /\ CommandRead
  /\ response.hcimsg.config = 1
  /\ Int8(response.hcimsg.rssi_threshold) = -120
  /\ response.status = BT_OK
  /\ hci_event_filter.rssi_threshold = -120

\* the configuration a request carries in its own bytes: a count or a UUID
\* byte the request does not hold is absent (-1)
CarriedConfiguration(config, rssi_threshold, data) ==
  LET uuid16_count == IF Len(data) >= 1 THEN data[1] ELSE 0
      uuid32_count == IF Len(data) >= uuid16_count + 2
                        THEN data[uuid16_count + 2] ELSE 0
      byte(i) == IF i <= Len(data) THEN data[i] ELSE -1
  IN [filter_config  |-> config,
      rssi_threshold |-> Int8(rssi_threshold),
      uuids_16bit    |-> [k \in 0..(uuid16_count - 1) |-> byte(k + 2)],
      uuids_32bit    |-> [k \in 0..(uuid32_count - 1) |-> byte(uuid16_count + 3 + k)]]

\* C14: after a successful configuration the active bitmask, threshold and
\* both UUID lists are exactly those the request carried.
C14_SuccessReplacesWholesale ==
  /\ (CommandRead /\ response.status = BT_OK)
       => ActiveConfiguration = CarriedConfiguration(response.hcimsg.config,
                                                     response.hcimsg.rssi_threshold,
                                                     response.hcimsg.data)
  /\ (CallWithBuffer /\ response.status = SL_STATUS_OK)
       => ActiveConfiguration = CarriedConfiguration(response.filter.config,
                                                     response.filter.rssi_threshold,
                                                     response.filter.data)

\* the UUIDs of `uuid_size` bytes packed in `bytes` bytes of a request's data
\* behind the 1-based index `first`
UuidsAt(data, first, bytes, uuid_size) ==
  {[k \in 1..uuid_size |-> data[first + j + k]] : j \in Strides(bytes, uuid_size)}

\* the active lists as the matchers walk them
ActiveUuids16 == ConfiguredUuids(Memory, hci_event_filter.uuids_16bit, 2)
ActiveUuids32 == ConfiguredUuids(Memory, hci_event_filter.uuids_32bit, 4)

\* the request's data holds the layout with counts in UUIDs: a count c, 2*c
\* bytes, a count d, 4*d bytes
HoldsCountedLayout(data) ==
  /\ Len(data) >= 1
  /\ Len(data) >= 2 * data[1] + 2
  /\ Len(data) >= 2 * data[1] + 2 + 4 * data[2 * data[1] + 2]

\* the active lists are the UUIDs of that layout
ActiveIsCountedLayout(data) ==
  /\ ActiveUuids16 = UuidsAt(data, 1, 2 * data[1], 2)
  /\ ActiveUuids32 = UuidsAt(data, 2 * data[1] + 2, 4 * data[2 * data[1] + 2], 4)

\* C15 as stated: after a successful configuration whose data holds a count c
\* of 2-byte UUIDs, those UUIDs, a count of 4-byte UUIDs at 6+2c and those
\* UUIDs, the matchers compare against exactly these UUIDs.
C15_CountsAreUuidCounts ==
  /\ (CommandRead /\ response.status = BT_OK
      /\ HoldsCountedLayout(response.hcimsg.data))
       => ActiveIsCountedLayout(response.hcimsg.data)
  /\ (CallWithBuffer /\ response.status = SL_STATUS_OK
      /\ HoldsCountedLayout(response.filter.data))
       => ActiveIsCountedLayout(response.filter.data)

\* the request's data holds the layout with lengths in bytes, each a whole
\* number of UUIDs: a length b, b bytes, a length e, e bytes
HoldsByteLayout(data) ==
  /\ ListsWithinCapacity(data)
  /\ data[1] % 2 = 0
  /\ data[data[1] + 2] % 4 = 0

\* the active lists are the UUIDs of that layout
ActiveIsByteLayout(data) ==
  /\ hci_event_filter.uuids_16bit.uuid_array_length = data[1]
  /\ hci_event_filter.uuids_32bit.uuid_array_length = data[data[1] + 2]
  /\ ActiveUuids16 = UuidsAt(data, 1, data[1], 2)
  /\ ActiveUuids32 = UuidsAt(data, data[1] + 2, data[data[1] + 2], 4)

\* C15 amended: the byte at offset 5 is the length b in bytes of the 16-bit
\* list at offset 6, the byte at offset 6+b the length e in bytes of the 32-bit
\* list at offset 7+b; after a successful configuration the matchers compare
\* against exactly the b/2 16-bit and e/4 32-bit UUIDs found there.
C15_CountsAreByteLengths ==
  /\ (CommandRead /\ response.status = BT_OK
      /\ HoldsByteLayout(response.hcimsg.data))
       => ActiveIsByteLayout(response.hcimsg.data)
  /\ (CallWithBuffer /\ response.status = SL_STATUS_OK
      /\ HoldsByteLayout(response.filter.data))
       => ActiveIsByteLayout(response.filter.data)

\* C15 witness: a command with the 16-bit list {0x180F, 0x0102} in 4 bytes and
\* the 32-bit list {0x0000180A} in 4 bytes was accepted
C15_Witness ==
  /\ CommandRead
  /\ response.status = BT_OK
  /\ Len(response.hcimsg.data) >= Len(BothLists)
  /\ SubSeq(response.hcimsg.data, 1, Len(BothLists)) = BothLists
  /\ ActiveUuids16 = {<<15, 24>>, <<2, 1>>}
  /\ ActiveUuids32 = {<<10, 24, 0, 0>>}

-----------------------------------------------------------------------------
(* The matchers, seen through reports that hold one AD structure *)

\* the scanned blob is one AD structure with a type
SingleStructure ==
  /\ ScannedWholeBlob
  /\ Len(event.data) >= 2
  /\ event.data[1] = Len(event.data) - 1

StructureType == event.data[2]
StructurePayload == SubSeq(event.data, 3, Len(event.data))

\* the UUID width of the structure's type, and the configured list of that width
StructureWidth == IF RuleBit(StructureType) <= 3 THEN 2 ELSE 4
StructureList ==
  IF StructureWidth = 2 THEN hci_event_filter.uuids_16bit
  ELSE hci_event_filter.uuids_32bit

\* the structure is of one of `types`, the rule of its type is enabled, and
\* the configured list of its width holds whole UUIDs
UnderEnabledRule(types) ==
  /\ SingleStructure
  /\ StructureType \in types
  /\ BitSet(hci_event_filter.filter_config, RuleBit(StructureType))
  /\ StructureList.uuid_array_length % StructureWidth = 0

\* C16: a Service Data structure whose payload starts with a UUID of its width
\* matches if and only if that UUID equals some entry of the configured list
\* of that width, whatever the entry's place in the list.
C16_ServiceDataMatch ==
  (/\ UnderEnabledRule({SL_BT_HCI_AD_TYPE_SERVICE_DATA_UUID_16_BIT,
                        SL_BT_HCI_AD_TYPE_SERVICE_DATA_UUID_32_BIT})
   /\ Len(StructurePayload) >= StructureWidth)
    => (uuid_status = ACCEPT
          <=> SubSeq(StructurePayload, 1, StructureWidth)
                \in ConfiguredUuids(Memory, StructureList, StructureWidth))

\* C16 witness: Service Data 0x0102 matched the second entry of {0x180F, 0x0102}
C16_Witness ==
  /\ UnderEnabledRule({SL_BT_HCI_AD_TYPE_SERVICE_DATA_UUID_16_BIT})
  /\ StructurePayload = <<2, 1>>
  /\ ListByte(Memory, hci_event_filter.uuids_16bit.uuid_array, 0) = 15
  /\ hci_event_filter.uuids_16bit.uuid_array_length = 4
  /\ uuid_status = ACCEPT

\* C17: a list structure (incomplete or complete, 16-bit or 32-bit) whose
\* payload is a packed array of UUIDs of its width matches if and only if one
\* of them equals some entry of the configured list of that width.
C17_ServiceClassListMatch ==
  (/\ UnderEnabledRule({SL_BT_HCI_AD_TYPE_INCOMPLETE_SERVICE_CLASS_UUID_16_BIT,
                        SL_BT_HCI_AD_TYPE_COMPLETE_SERVICE_CLASS_UUID_16_BIT,
                        SL_BT_HCI_AD_TYPE_INCOMPLETE_SERVICE_CLASS_UUID_32_BIT,
                        SL_BT_HCI_AD_TYPE_COMPLETE_SERVICE_CLASS_UUID_32_BIT})
   /\ Len(StructurePayload) % StructureWidth = 0)
    => (uuid_status = ACCEPT
          <=> PackedUuids(StructurePayload, StructureWidth)
                \cap ConfiguredUuids(Memory, StructureList, StructureWidth) # {})

\* C17 witness: the Complete List {0x0909, 0x0102} matched through its second UUID
C17_Witness ==
  /\ UnderEnabledRule({SL_BT_HCI_AD_TYPE_COMPLETE_SERVICE_CLASS_UUID_16_BIT})
  /\ StructurePayload = <<9, 9, 2, 1>>
  /\ uuid_status = ACCEPT

-----------------------------------------------------------------------------
(* The early returns of the two stages *)

\* this step is filter_by_rssi returning
RssiReturns == HasEvent /\ rssi_status = "none" /\ rssi_status' # "none"

RssiBitClear == hci_event_filter.filter_config % 2 = 0
NoUuidRuleBit == \A k \in 1..6 : ~BitSet(hci_event_filter.filter_config, k)

\* C18: filter_by_rssi accepts every event while the RSSI bit is clear, and
\* filter_by_uuid accepts every event, reads none of its AD data and leaves
\* the tracker as it is while none of the six UUID rule bits is set.
C18_DisabledStageAccepts ==
  [][/\ (RssiReturns /\ RssiBitClear) => rssi_status' = ACCEPT
     /\ (UuidReturns /\ NoUuidRuleBit)
          => /\ uuid_status' = ACCEPT
             /\ uuid_scan'.max_read = -1
             /\ advertisment_report_incomplete' = advertisment_report_incomplete]_vars

\* C18 witness: with no rule at all, an event whose codes cannot be read was
\* accepted by both stages
C18_Witness ==
  /\ HasEvent
  /\ hci_event_filter.filter_config = 0
  /\ event.opcode_status # SL_STATUS_OK
  /\ rssi_status = ACCEPT
  /\ uuid_status = ACCEPT

\* the event's codes can be read and are not those of an LE Extended
\* Advertising Report
NotAReport(ev) ==
  /\ ev.opcode_status = SL_STATUS_OK
  /\ \/ ev.opcode # HCI_EVENT_LE_META_EVENT
     \/ ev.subevent_opcode # HCI_EVENT_LE_EXTENDED_ADVERTISING_REPORT

\* C19: an event that is not an LE Extended Advertising Report is accepted by
\* both stages under every configuration and tracker state, and the tracker
\* stays as it is.
C19_OtherEventsAccepted ==
  [][/\ (RssiReturns /\ NotAReport(event)) => rssi_status' = ACCEPT
     /\ (UuidReturns /\ NotAReport(event))
          => /\ uuid_status' = ACCEPT
             /\ advertisment_report_incomplete' = advertisment_report_incomplete]_vars

\* C19 witness: an LE Meta Event of another sub-event code, its bytes those of
\* a weak report without a configured UUID, was accepted by both stages in
\* mid-chain with the RSSI rule and a UUID rule enabled
C19_Witness ==
  /\ HasEvent
  /\ event.opcode = HCI_EVENT_LE_META_EVENT
  /\ event.subevent_opcode = 2
  /\ Int8(event.rssi) < hci_event_filter.rssi_threshold
  /\ hci_event_filter.filter_config = 3
  /\ advertisment_report_incomplete
  /\ rssi_status = ACCEPT
  /\ uuid_status = ACCEPT

\* an LE Extended Advertising Report whose length or parameters cannot be
\* retrieved, or that holds fewer bytes than its length announces
DecodeFails(ev) ==
  /\ ev.opcode_status = SL_STATUS_OK
  /\ ev.opcode = HCI_EVENT_LE_META_EVENT
  /\ ev.subevent_opcode = HCI_EVENT_LE_EXTENDED_ADVERTISING_REPORT
  /\ \/ ev.length_status # SL_STATUS_OK
     \/ ev.param_status # SL_STATUS_OK
     \/ ev.avail < ev.len + 2

\* C20: with a UUID rule enabled, a report that cannot be decoded is discarded
\* by filter_by_uuid in either tracker state and the tracker stays as it is.
C20_DecodeFailureDiscards ==
  [][(UuidReturns /\ ~NoUuidRuleBit /\ DecodeFails(event))
       => /\ uuid_status' = DISCARD
          /\ advertisment_report_incomplete' = advertisment_report_incomplete]_vars

\* C20 witness: in mid-chain a report with the flag clear that holds fewer
\* bytes than announced was discarded and the chain goes on
C20_Witness ==
  /\ HasEvent
  /\ ~NoUuidRuleBit
  /\ event.length_status = SL_STATUS_OK /\ event.param_status = SL_STATUS_OK
  /\ event.avail < event.len + 2
  /\ ~ReportIncomplete(event)
  /\ uuid_status = DISCARD
  /\ advertisment_report_incomplete

-----------------------------------------------------------------------------
(* A callback that runs while a configuration command is under way *)

\* the configuration a callback works with: the descriptor `f` and the UUID
\* bytes its arrays point at in `mem`
ConfigurationSeen(f, mem) ==
  [filter_config  |-> f.filter_config,
   rssi_threshold |-> f.rssi_threshold,
   uuids_16bit    |-> UuidBytes(mem, f.uuids_16bit),
   uuids_32bit    |-> UuidBytes(mem, f.uuids_32bit)]

\* the configuration in force when the command under way arrived
OldConfiguration ==
  ConfigurationSeen(configure_call.filter,
                    [work |-> configure_call.work, user |-> user_filter])

\* the configuration the command under way carries
NewConfiguration ==
  ConfigurationSeen(ConfiguredFilter(work_filter, "work"), Memory)

\* a command is under way that passes every check
Reconfiguring ==
  /\ configure_call # NoCall
  /\ ConfigStatus(work_filter) = SL_STATUS_OK

\* C21: a callback that returns while a successful reconfiguration is under
\* way has worked with the whole old configuration or the whole new one:
\* bitmask, threshold, list lengths and UUID bytes.
C21_NoTornConfiguration ==
  [][((RssiReturns \/ UuidReturns) /\ Reconfiguring)
       => ConfigurationSeen(hci_event_filter, Memory)
            \in {OldConfiguration, NewConfiguration}]_vars

-----------------------------------------------------------------------------
(* Termination of the AD scan *)

\* C22: a filter_by_uuid call that reads inside its buffer returns a verdict,
\* whatever the data_length, the AD data and the configuration: the scan loop
\* does not go round for ever.
C22_ScanTerminates ==
  (HasEvent /\ uuid_status # "none" /\ uuid_scan.max_read <= DataTop)
    => uuid_status \in {ACCEPT, DISCARD}

-----------------------------------------------------------------------------
(* The callbacks invoked twice on one event *)

\* both callbacks have returned for the second time
ReturnedTwice ==
  /\ HasEvent
  /\ first_pass # NoPass
  /\ rssi_status # "none"
  /\ uuid_status # "none"

\* C23 as stated: the second invocation of each callback on the same event
\* under the same configuration returns what the first one returned.
C23_SameVerdictTwice ==
  ReturnedTwice
    => /\ rssi_status = first_pass.rssi_status
       /\ uuid_status = first_pass.uuid_status

\* the first filter_by_uuid call took the fragment bypass, as the first or as
\* the last report of a chain
Bypassed == first_pass.path \in {"first", "last"}

\* C23: no callback changes the active configuration, filter_by_rssi returns
\* the same verdict both times, and so does filter_by_uuid unless its first
\* call took the fragment bypass (the second call then scans the report) or
\* read past its buffer.
C23_SameVerdictUnlessBypass ==
  [][/\ (RssiReturns \/ UuidReturns)
          => UNCHANGED <<hci_event_filter, work_filter, user_filter>>
     /\ ReturnedTwice'
          => /\ rssi_status' = first_pass'.rssi_status
             /\ (~Bypassed' /\ first_pass'.max_read <= DataTop)
                  => uuid_status' = first_pass'.uuid_status]_vars

\* C23 witness: in mid-chain a report with the flag set and no configured
\* UUID was scanned and discarded twice
C23_Witness ==
  /\ ReturnedTwice
  /\ advertisment_report_incomplete
  /\ first_pass.path = "scan"
  /\ ReportIncomplete(event)
  /\ first_pass.uuid_status = DISCARD
  /\ uuid_status = DISCARD

-----------------------------------------------------------------------------
(* The fragment tracker and the configuration *)

\* C24: advertisment_report_incomplete changes only in a step in which
\* filter_by_uuid returns: no configuration request, accepted or rejected, and
\* no filter_by_rssi call changes it.
C24_OnlyUuidStageMovesTracker ==
  [][advertisment_report_incomplete' # advertisment_report_incomplete
       => UuidReturns]_vars

\* C24 witness: a chain is in progress although the configuration, set by an
\* accepted command, has no UUID rule: the chain began before that command
C24_Witness ==
  /\ advertisment_report_incomplete
  /\ response.op = "command"
  /\ response.handled
  /\ response.status = BT_OK
  /\ response.hcimsg.config = 1
  /\ hci_event_filter.filter_config = 1
  /\ HasEvent
  /\ rssi_status # "none"
  /\ uuid_status # "none"

-----------------------------------------------------------------------------
(* The active configuration after any sequence of requests *)

\* C25: after initialisation and any sequence of configuration requests,
\* accepted or rejected, hci_event_filter has no bit outside bits 0..6, a
\* threshold within -120..-30 whenever the RSSI bit is set, and list lengths
\* within the capacities of the two arrays.
C25_ActiveConfigurationValid ==
  /\ hci_event_filter.filter_config \in 0..127
  /\ hci_event_filter.filter_config % 2 = 1
       => hci_event_filter.rssi_threshold \in -120..-30
  /\ hci_event_filter.uuids_16bit.uuid_array_length
       \in 0..SL_BT_HCI_FILTER_16BIT_UUID_ARRAY_LEN
  /\ hci_event_filter.uuids_32bit.uuid_array_length
       \in 0..SL_BT_HCI_FILTER_32BIT_UUID_ARRAY_LEN

\* C25 witness: both lists of the active configuration fill their arrays and
\* the last request was rejected
C25_Witness ==
  /\ Rejected(response)
  /\ hci_event_filter.uuids_16bit.uuid_array_length
       = SL_BT_HCI_FILTER_16BIT_UUID_ARRAY_LEN
  /\ hci_event_filter.uuids_32bit.uuid_array_length
       = SL_BT_HCI_FILTER_32BIT_UUID_ARRAY_LEN

-----------------------------------------------------------------------------
(* The answer to a configuration command *)

\* the last request was a command whose opcode could be read and is the
\* filter-configuration opcode
AnsweredCommand(r) ==
  /\ r.op = "command"
  /\ r.hcimsg.opcode_status = SL_STATUS_OK
  /\ r.hcimsg.opcode = SL_BT_HCI_CONFIGURE_FILTERING_OPCODE

-----------------------------------------------------------------------------
(* The built-in default policy *)

-----------------------------------------------------------------------------
(* The circular queue *)

\* C28: efr32CircularQueueGetFreeIndex returns EFR32_INVALID_QUEUE_INDEX if
\* and only if the queue is full and then leaves the queue as it is; otherwise
\* it returns the old head, an index below maxSize, moves head on by one
\* modulo maxSize and sets isFull exactly when the new head equals tail.
C28_GetFreeIndex ==
  [][queue_index'.call = "efr32CircularQueueGetFreeIndex"
       => /\ queue_index'.index = 255 <=> queue.isFull
          /\ queue.isFull => queue' = queue
          /\ ~queue.isFull
               => /\ queue_index'.index = queue.head
                  /\ queue_index'.index < queue.maxSize
                  /\ queue'.head = (queue.head + 1) % queue.maxSize
                  /\ queue'.tail = queue.tail
                  /\ queue'.maxSize = queue.maxSize
                  /\ queue'.isFull <=> queue'.head = queue'.tail]_vars

\* C28 witness: the call handed out the last index before the wrap and the
\* queue became full
C28_Witness ==
  /\ queue_index.call = "efr32CircularQueueGetFreeIndex"
  /\ queue_index.index = queue.maxSize - 1
  /\ queue.head = 0
  /\ queue.tail = 0
  /\ queue.isFull

\* C29: efr32CircularQueueGetNextInuseIndex returns EFR32_INVALID_QUEUE_INDEX
\* if and only if head equals tail and the queue is not full, otherwise tail,
\* and leaves the queue as it is, so that a second call in a row returns the
\* same index.
C29_GetNextInuseIndex ==
  [][queue_index'.call = "efr32CircularQueueGetNextInuseIndex"
       => /\ queue_index'.index = 255
               <=> (queue.head = queue.tail /\ ~queue.isFull)
          /\ ~(queue.head = queue.tail /\ ~queue.isFull)
               => queue_index'.index = queue.tail
          /\ queue' = queue
          /\ queue_index.call = "efr32CircularQueueGetNextInuseIndex"
               => queue_index'.index = queue_index.index]_vars

\* C29 witness: the call on a full queue, whose head equals its tail, returned
\* the tail
C29_Witness ==
  /\ queue_index.call = "efr32CircularQueueGetNextInuseIndex"
  /\ queue.isFull
  /\ queue.head = queue.tail
  /\ queue.tail > 0
  /\ queue_index.index = queue.tail

-----------------------------------------------------------------------------
(* Button joining *)

\* C30: the run of the button 0 event handler that follows a release of
\* button 0 after at least 5000 ms down calls emberLeaveNetwork, whatever the
\* two buttons did in between.
C30_LongHoldLeaves ==
  button0_run.held >= 5000 => button0_run.call = "emberLeaveNetwork"

\* the event is an Extended Advertising Report that is shorter than the fixed
\* report header, or whose data_length field is greater than the data array or
\* than the number of AD bytes the event holds
MalformedReport(ev) ==
  /\ IsExtAdvReport(ev)
  /\ \/ ev.len + 2 < OFFSET_DATA
     \/ ev.data_length > SIZEOF_DATA
     \/ ev.data_length > Len(ev.data)

\* C31: with a UUID rule enabled, filter_by_uuid discards every Extended
\* Advertising Report that is shorter than the report header or whose
\* data_length exceeds 229 or the AD bytes present, in either tracker state,
\* without scanning it and without taking it for the first or the last report
\* of a chain.
C31_MalformedReportDiscarded ==
  (HasEvent /\ uuid_status # "none" /\ UuidRuleEnabled /\ MalformedReport(event))
    => /\ uuid_status = DISCARD
       /\ uuid_scan.path \notin {"first", "last", "scan"}

\* C32: the two callbacks commute.  Whichever was called first, once both have
\* returned filter_by_rssi has given the verdict it gives on the configuration
\* the event met, filter_by_uuid a verdict it gives from the tracker the event
\* met, the tracker is where filter_by_uuid alone takes it from there, and the
\* configuration is the one the event met.
C32_StagesCommute ==
  (HasEvent /\ Returned(rssi_status) /\ Returned(uuid_status))
    => LET r == filter_by_uuid(event, Memory, invocation.filter, invocation.incomplete)
       IN /\ rssi_status = filter_by_rssi(event, invocation.filter)
          /\ uuid_status \in Outcomes(r.status, invocation.filter)
          /\ advertisment_report_incomplete = r.incomplete
          /\ hci_event_filter = invocation.filter

\* filter_by_uuid ran first and closed a chain on a report that filter_by_rssi
\* then discarded
C32_Witness ==
  /\ HasEvent
  /\ invocation.order = <<"filter_by_uuid", "filter_by_rssi">>
  /\ uuid_scan.path = "last"
  /\ uuid_status = ACCEPT
  /\ rssi_status = DISCARD

\* who sent the report: the address type, the address and the advertising set
Advertiser(ev) == <<ev.address_type, ev.address, ev.advertising_sid>>

\* the same report from the public address 00:00:00:00:00:00, advertising set 0
Anonymous(ev) ==
  [ev EXCEPT !.address_type = 0, !.address = Zeros(6), !.advertising_sid = 0]

\* C33: the fragment tracker is not keyed by advertiser.  filter_by_uuid gives
\* a report the verdict and the tracker transition it gives the same report
\* from any other address, address type and advertising set; so with a UUID
\* rule enabled a decodable report with the incomplete flag clear that meets a
\* chain in progress is accepted and ends the chain, whoever opened it.
C33_TrackerNotKeyedByAdvertiser ==
  (HasEvent /\ uuid_status # "none")
    => LET r == filter_by_uuid(Anonymous(event), Memory, invocation.filter,
                               invocation.incomplete)
       IN /\ uuid_status \in Outcomes(r.status, invocation.filter)
          /\ advertisment_report_incomplete = r.incomplete
          /\ uuid_scan.path = r.path
          /\ (UuidRuleBits(invocation.filter.filter_config) /\ invocation.incomplete
                /\ Decodes(event) /\ ~ReportIncomplete(event))
               => uuid_status = ACCEPT /\ ~advertisment_report_incomplete

\* a report with the flag clear has closed a chain that another advertiser
\* opened, and was accepted unfiltered although none of its UUIDs is configured
C33_Witness ==
  /\ HasEvent
  /\ uuid_scan.path = "last"
  /\ uuid_status = ACCEPT
  /\ invocation.opener # Advertiser(event)
  /\ event.data = <<3, 22, 9, 9>>

\* C34: once filter_by_uuid has been called, a UUID rule being enabled, on a
\* report that decodes, the tracker is set exactly when the report's
\* incomplete flag is; and the call took the fragment bypass exactly when the
\* report's flag differs from the flag of the report decoded before it (from
\* clear when there was none).
C34_TrackerIsLastFlag ==
  (HasEvent /\ uuid_status # "none" /\ UuidRuleEnabled /\ Decodes(event))
    => /\ advertisment_report_incomplete = ReportIncomplete(event)
       /\ uuid_scan.path \in {"first", "last"}
            <=> ReportIncomplete(event) # invocation.flag

\* a report with the flag set was scanned, not bypassed, after another report
\* with the flag set, and the tracker is still set
C34_Witness ==
  /\ HasEvent
  /\ uuid_status = DISCARD
  /\ UuidRuleEnabled
  /\ Decodes(event)
  /\ ReportIncomplete(event)
  /\ invocation.flag
  /\ uuid_scan.path = "scan"
  /\ advertisment_report_incomplete

\* where the AD structure begins whose extent (its length byte and the
\* `length` bytes after it) holds byte k of the blob, from position p on; -1
\* when k lies outside the blob
RECURSIVE StructureOf(_, _, _)
StructureOf(blob, p, k) ==
  IF p >= Len(blob) THEN -1
  ELSE IF k <= p + blob[p + 1] THEN p
  ELSE StructureOf(blob, p + blob[p + 1] + 1, k)

\* C35: a match is made of bytes of one AD structure only.  When a scanned
\* report with a well-formed blob is accepted, the UUID that matched (the last
\* bytes filter_by_uuid read) lies in the payload of a single structure: a
\* payload shorter than a UUID, a trailing part of a UUID and a zero-length
\* structure are not completed with the bytes that follow them.
C35_MatchInsideStructure ==
  (ScannedWholeBlob /\ WellFormed(event.data, 0) /\ uuid_status = ACCEPT)
    => LET last == uuid_scan.max_read
           p == StructureOf(event.data, 0, last)
       IN /\ p >= 0
          /\ event.data[p + 1] >= 1
          /\ last - (IF RuleBit(event.data[p + 2]) <= 3 THEN 2 ELSE 4) + 1 >= p + 2

\* every UUID rule that is enabled has an empty list of its width
EnabledListsEmpty(f) ==
  \A bit \in 1..6 :
    BitSet(f.filter_config, bit)
      => (IF bit <= 3 THEN f.uuids_16bit ELSE f.uuids_32bit).uuid_array_length = 0

\* C36: when every enabled UUID rule has an empty list, filter_by_uuid
\* discards every report that it decodes and that takes no fragment bypass.
C36_EmptyListsDiscard ==
  (HasEvent /\ uuid_status # "none" /\ uuid_scan.path = "scan"
     /\ UuidRuleEnabled /\ EnabledListsEmpty(hci_event_filter))
    => uuid_status = DISCARD

\* what does hold over empty lists: no report is accepted by the scan, which
\* discards the report or does not return
NoAcceptOverEmptyLists ==
  (HasEvent /\ uuid_status # "none" /\ uuid_scan.path = "scan"
     /\ UuidRuleEnabled /\ EnabledListsEmpty(hci_event_filter))
    => uuid_status # ACCEPT

\* C37: the command is refused for its length exactly when its parameter
\* length is below 5 or above the size of the work buffer, 5 + the 16-bit
\* capacity + the 32-bit capacity + 2, whatever the capacities of the build.
C37_LengthCheck ==
  length_check.checked
    => (length_check.refused
          <=> \/ length_check.length < 5
              \/ length_check.length
                   > 5 + length_check.array_len_16 + length_check.array_len_32 + 2)

\* C38: with efr32CircularQueueFreeIndex called on a non-empty queue only, the
\* queue is a FIFO of capacity maxSize.  head and tail stay below maxSize, the
\* indexes outstanding never number more than maxSize, isFull holds exactly
\* when maxSize are outstanding and IsEmpty exactly when none is, and
\* GetNextInuseIndex gives the index that was handed out first among those
\* outstanding: the consumer gets the indexes in the order of their allocation.
C38_QueueIsBoundedFifo ==
  /\ queue.head < queue.maxSize
  /\ queue.tail < queue.maxSize
  /\ Len(outstanding) <= queue.maxSize
  /\ queue.isFull <=> Len(outstanding) = queue.maxSize
  /\ (queue.head = queue.tail /\ ~queue.isFull) <=> outstanding = << >>
  /\ outstanding # << >> => Head(outstanding) = queue.tail
  /\ queue_index.call = "efr32CircularQueueGetNextInuseIndex"
       => queue_index.index = IF outstanding = << >> THEN 255 ELSE Head(outstanding)

\* the queue is full after head and tail have wrapped, and the consumer has
\* been shown the oldest index, which is not index 0
C38_Witness ==
  /\ queue.isFull
  /\ queue.tail > 0
  /\ queue_index.call = "efr32CircularQueueGetNextInuseIndex"
  /\ queue_index.index = queue.tail
  /\ outstanding[Len(outstanding)] < outstanding[1]

\* C39: efr32CircularQueueFreeIndex called on an empty queue leaves the queue
\* empty.
C39_FreeIndexOnEmptyKeepsEmpty ==
  [][(queue_index'.call = "efr32CircularQueueFreeIndex"
        /\ queue.head = queue.tail /\ ~queue.isFull)
       => (queue'.head = queue'.tail /\ ~queue'.isFull)]_vars

\* C40: after any sequence of start-feedback and stop-feedback callbacks and
\* firings of the feedback event, the periodic event is scheduled if and only
\* if at least one endpoint is marked identifying; and a start or stop for an
\* endpoint without an Identify server (index 0xFF) leaves the table and the
\* event as it met them.
C40_FeedbackEventIffIdentifying ==
  /\ provideFeedbackEvent <=> (\E i \in DOMAIN identifyTable : identifyTable[i])
  /\ (/\ identify_call.call \in {"emberAfPluginIdentifyStartFeedbackCallback",
                                 "emberAfPluginIdentifyStopFeedbackCallback"}
      /\ identify_call.ep = 255)
       => /\ identifyTable = identify_call.table
          /\ provideFeedbackEvent = identify_call.event

\* a stop for an endpoint without an Identify server, come while two endpoints
\* are identifying and after the event has fired
C40_Witness ==
  /\ identify_call.call = "emberAfPluginIdentifyStopFeedbackCallback"
  /\ identify_call.ep = 255
  /\ provideFeedbackEvent
  /\ leds
  /\ identifyTable[1] /\ identifyTable[2] /\ ~identifyTable[0]

====
